---- MODULE Spec2Model ----
(***************************************************************************)
(* Cognishelf full-text search: the tokenizer (tokenizer.js, bundled in    *)
(* src/app.js) and the inverted index (src/src/utils/InvertedIndex.js).    *)
(*                                                                         *)
(* A JavaScript string is a sequence of UTF-16 code units (naturals); a    *)
(* Map or Set is the sequence of its entries in insertion order, which is  *)
(* the order every for..of, entries() and Array.from of the code sees.     *)
(* A JavaScript number that results from a division is kept as the exact   *)
(* fraction in lowest terms.                                               *)
(***************************************************************************)
EXTENDS Integers, Sequences, FiniteSets, TLC

VARIABLES index, documents, documentTokens, stats, removed,
          store, indexReady, isInitialized, tasks, nextId, scan, tok, answer

\* the state of the facade that owns the index: its document store, its two
\* flags, its calls in flight and the next id its store hands out
facade == <<store, indexReady, isInitialized, tasks, nextId>>

vars == <<index, documents, documentTokens, stats, removed, facade, scan,
         tok, answer>>

(***************************************************************************)
(* Insertion-ordered Set and Map of JavaScript                             *)
(***************************************************************************)
Range(s) == {s[i] : i \in 1..Len(s)}

SetHas(s, x) == \E i \in 1..Len(s) : s[i] = x

\* Set.prototype.add: appends the value unless it is already present
SetAdd(s, x) == IF SetHas(s, x) THEN s ELSE Append(s, x)

\* Set.prototype.delete: the other values keep their order
SetDelete(s, x) == SelectSeq(s, LAMBDA y : y # x)

RECURSIVE SetFromAcc(_, _, _)
SetFromAcc(acc, a, i) ==
  IF i > Len(a) THEN acc ELSE SetFromAcc(SetAdd(acc, a[i]), a, i + 1)

\* new Set(iterable): the values in order of first occurrence
SetFrom(a) == SetFromAcc(<<>>, a, 1)

Keys(m) == [i \in 1..Len(m) |-> m[i].key]

Values(m) == [i \in 1..Len(m) |-> m[i].val]

MapHas(m, k) == \E i \in 1..Len(m) : m[i].key = k

\* Map.prototype.get of a key the map holds
MapGet(m, k) == m[CHOOSE i \in 1..Len(m) : m[i].key = k].val

\* Map.prototype.set: a known key keeps its position, a new key goes last
MapSet(m, k, v) ==
  IF MapHas(m, k)
  THEN [i \in 1..Len(m) |-> IF m[i].key = k THEN [key |-> k, val |-> v] ELSE m[i]]
  ELSE Append(m, [key |-> k, val |-> v])

\* Map.prototype.delete
MapDelete(m, k) == SelectSeq(m, LAMBDA e : e.key # k)

(***************************************************************************)
(* Values a document field can hold                                        *)
(***************************************************************************)
Str(s) == [kind |-> "string", chars |-> s, items |-> <<>>]

Arr(a) == [kind |-> "array", chars |-> <<>>, items |-> a]

Undefined == [kind |-> "undefined", chars |-> <<>>, items |-> <<>>]

\* document[field]: undefined for a property the document does not have
FieldValue(document, field) ==
  IF field \in DOMAIN document THEN document[field] ELSE Undefined

(***************************************************************************)
(* Tokenizer                                                               *)
(***************************************************************************)
JAPANESE_STOPWORDS ==
  { <<12398>>, <<12395>>, <<12399>>, <<12434>>, <<12383>>, <<12364>>, <<12391>>,
    <<12390>>, <<12392>>, <<12375>>, <<12428>>, <<12373>>, <<12354, 12427>>,
    <<12356, 12427>>, <<12418>>, <<12377, 12427>>, <<12363, 12425>>, <<12394>>,
    <<12371, 12392>>, <<12392, 12375, 12390>>, <<12356>>, <<12420>>, <<12428, 12427>>,
    <<12394, 12393>>, <<12394, 12387>>, <<12394, 12356>>, <<12371, 12398>>,
    <<12383, 12417>>, <<12381, 12398>>, <<12354, 12387>>, <<12424, 12358>>,
    <<12414, 12383>>, <<12418, 12398>>, <<12392, 12356, 12358>>, <<12354, 12426>>,
    <<12414, 12391>>, <<12425, 12428>>, <<12394, 12427>>, <<12408>>, <<12363>>,
    <<12384>>, <<12371, 12428>>, <<12395, 12424, 12387, 12390>>,
    <<12395, 12424, 12426>>, <<12362, 12426>>, <<12424, 12426>>,
    <<12395, 12424, 12427>>, <<12378>>, <<12394, 12426>>, <<12425, 12428, 12427>>,
    <<12395, 12362, 12356, 12390>>, <<12400>>, <<12394, 12363, 12387>>,
    <<12394, 12367>>, <<12375, 12363, 12375>>, <<12395, 12388, 12356, 12390>>,
    <<12379>>, <<12384, 12387>>, <<12381, 12398, 24460>>, <<12391, 12365, 12427>>,
    <<12381, 12428>>, <<12358>>, <<12398, 12391>>, <<12394, 12362>>, <<12398, 12415>>,
    <<12391, 12365>>, <<12365>>, <<12388>>, <<12395, 12362, 12369, 12427>>,
    <<12362, 12424, 12403>>, <<12356, 12358>>, <<12373, 12425, 12395>>,
    <<12391, 12418>>, <<12425>>, <<12383, 12426>>, <<12381, 12398, 20182>>,
    <<12395, 38306, 12377, 12427>>, <<12383, 12385>>, <<12414, 12377>>, <<12435>>,
    <<12394, 12425>>, <<12395, 23550, 12375, 12390>>, <<29305, 12395>>,
    <<12379, 12427>>, <<21450, 12403>>, <<12371, 12428, 12425>>, <<12392, 12365>>,
    <<12391, 12399>>, <<12395, 12390>>, <<12411, 12363>>, <<12394, 12364, 12425>>,
    <<12358, 12385>>, <<12381, 12375, 12390>>, <<12392, 12392, 12418, 12395>>,
    <<12383, 12384, 12375>>, <<12363, 12388, 12390>>, <<12381, 12428, 12382, 12428>>,
    <<12414, 12383, 12399>>, <<12362>>, <<12411, 12393>>, <<12418, 12398, 12398>>,
    <<12395, 23550, 12377, 12427>>, <<12411, 12392, 12435, 12393>>,
    <<12392, 20849, 12395>>, <<12392, 12356, 12387, 12383>>, <<12391, 12377>>,
    <<12392, 12418>>, <<12392, 12371, 12429>>, <<12371, 12371>> }

ENGLISH_STOPWORDS ==
  { <<116, 104, 101>>, <<97>>, <<97, 110>>, <<97, 110, 100>>, <<111, 114>>,
    <<98, 117, 116>>, <<105, 110>>, <<111, 110>>, <<97, 116>>, <<116, 111>>,
    <<102, 111, 114>>, <<111, 102>>, <<119, 105, 116, 104>>, <<98, 121>>,
    <<102, 114, 111, 109>>, <<97, 115>>, <<105, 115>>, <<119, 97, 115>>,
    <<97, 114, 101>>, <<119, 101, 114, 101>>, <<98, 101, 101, 110>>, <<98, 101>>,
    <<104, 97, 118, 101>>, <<104, 97, 115>>, <<104, 97, 100>>, <<100, 111>>,
    <<100, 111, 101, 115>>, <<100, 105, 100>>, <<119, 105, 108, 108>>,
    <<119, 111, 117, 108, 100>>, <<115, 104, 111, 117, 108, 100>>,
    <<99, 111, 117, 108, 100>>, <<109, 97, 121>>, <<109, 105, 103, 104, 116>>,
    <<109, 117, 115, 116>>, <<99, 97, 110>>, <<116, 104, 105, 115>>,
    <<116, 104, 97, 116>>, <<116, 104, 101, 115, 101>>, <<116, 104, 111, 115, 101>>,
    <<105>>, <<121, 111, 117>>, <<104, 101>>, <<115, 104, 101>>, <<105, 116>>,
    <<119, 101>>, <<116, 104, 101, 121>> }

\* String.prototype.toLowerCase on one code unit: A-Z and fullwidth A-Z have a
\* lowercase form; digits, punctuation, kana and ideographs have none
ToLowerCase(c) ==
  IF (c >= 65 /\ c <= 90) \/ (c >= 65313 /\ c <= 65338) THEN c + 32 ELSE c

\* the fullwidth letters and digits U+FF21..FF3A, U+FF41..FF5A, U+FF10..FF19,
\* which the replace maps to the code unit minus 0xFEE0
IsFullwidthAlnum(c) ==
  \/ c >= 65313 /\ c <= 65338
  \/ c >= 65345 /\ c <= 65370
  \/ c >= 65296 /\ c <= 65305

ToHalfwidth(c) == IF IsFullwidthAlnum(c) THEN c - 65248 ELSE c

\* the class \s of a JavaScript regular expression, also what trim() strips
IsWhiteSpace(c) ==
  \/ c \in {9, 10, 11, 12, 13, 32, 160, 5760, 8232, 8233, 8239, 8287, 12288, 65279}
  \/ c >= 8192 /\ c <= 8202

RECURSIVE CollapseFrom(_, _)
\* .replace(/\s+/g, ' '): every maximal run of white space becomes one space
CollapseFrom(s, i) ==
  IF i > Len(s) THEN <<>>
  ELSE IF IsWhiteSpace(s[i])
       THEN IF i > 1 /\ IsWhiteSpace(s[i - 1])
            THEN CollapseFrom(s, i + 1)
            ELSE <<32>> \o CollapseFrom(s, i + 1)
       ELSE <<s[i]>> \o CollapseFrom(s, i + 1)

RECURSIVE TrimStart(_)
TrimStart(s) ==
  IF s # <<>> /\ IsWhiteSpace(Head(s)) THEN TrimStart(Tail(s)) ELSE s

RECURSIVE TrimEnd(_)
TrimEnd(s) ==
  IF s # <<>> /\ IsWhiteSpace(s[Len(s)])
  THEN TrimEnd(SubSeq(s, 1, Len(s) - 1))
  ELSE s

\* String.prototype.trim
Trim(s) == TrimEnd(TrimStart(s))

\* normalizeText of a string ('' for the empty string: !text)
normalizeText(text) ==
  LET lower == [i \in 1..Len(text) |-> ToLowerCase(text[i])]
      half  == [i \in 1..Len(text) |-> ToHalfwidth(lower[i])]
      space == [i \in 1..Len(text) |-> IF half[i] = 12288 THEN 32 ELSE half[i]]
  IN Trim(CollapseFrom(space, 1))

\* the character class of the split: white space, U+3000 and the ASCII and
\* Japanese punctuation and brackets , . U+3001 U+3002 ! ? U+FF01 ( ) U+FF08
\* U+FF09 [ ] U+300C..U+3011
IsSeparator(c) ==
  \/ IsWhiteSpace(c)
  \/ c \in {12288, 44, 46, 12289, 12290, 33, 63, 65281, 40, 41, 65288, 65289,
            91, 93, 12300, 12301, 12302, 12303, 12304, 12305}

RECURSIVE SplitFrom(_, _, _)
\* normalized.split(/[...]+/) without the empty strings the loop skips
\* (if (!word) continue): the maximal runs of non-separator characters
SplitFrom(s, i, word) ==
  IF i > Len(s) THEN (IF word = <<>> THEN <<>> ELSE <<word>>)
  ELSE IF IsSeparator(s[i])
       THEN (IF word = <<>> THEN <<>> ELSE <<word>>) \o SplitFrom(s, i + 1, <<>>)
       ELSE SplitFrom(s, i + 1, Append(word, s[i]))

\* [a-z0-9]
IsAsciiAlnum(c) == (c >= 97 /\ c <= 122) \/ (c >= 48 /\ c <= 57)

\* \d
IsDigit(c) == c >= 48 /\ c <= 57

\* U+3040..309F, U+30A0..30FF, U+4E00..9FFF: Hiragana, Katakana, ideographs
IsJapanese(c) ==
  \/ c >= 12352 /\ c <= 12447
  \/ c >= 12448 /\ c <= 12543
  \/ c >= 19968 /\ c <= 40959

DefaultMinLength == 2

DefaultMaxLength == 50

\* the defaults of tokenize's options
DefaultOptions ==
  [minLength |-> DefaultMinLength, maxLength |-> DefaultMaxLength,
   useBigram |-> TRUE, removeStopwords |-> TRUE, keepNumbers |-> TRUE]

\* every pair of adjacent characters, whatever their script
Bigrams_AnyPair(word) == [i \in 1..(Len(word) - 1) |-> SubSeq(word, i, i + 1)]

\* the bi-grams of a word, in order: the pairs of adjacent characters that are
\* both Hiragana, Katakana or ideographs
Bigrams(word) ==
  LET pair(i) == SubSeq(word, i, i + 1)
      RECURSIVE From(_)
      From(i) ==
        IF i > Len(word) - 1 THEN <<>>
        ELSE (IF IsJapanese(word[i]) /\ IsJapanese(word[i + 1])
              THEN <<pair(i)>> ELSE <<>>) \o From(i + 1)
  IN From(1)

\* the tokens one word adds to the token set, in the order it adds them
WordTokens(word, options) ==
  LET inLength == Len(word) >= options.minLength /\ Len(word) <= options.maxLength
  IN IF \A i \in 1..Len(word) : IsAsciiAlnum(word[i])
     THEN IF /\ inLength
             /\ ~(options.removeStopwords /\ word \in ENGLISH_STOPWORDS)
             /\ ~(~options.keepNumbers /\ \A i \in 1..Len(word) : IsDigit(word[i]))
          THEN <<word>>
          ELSE <<>>
     ELSE IF \E i \in 1..Len(word) : IsJapanese(word[i])
          THEN IF options.removeStopwords /\ word \in JAPANESE_STOPWORDS
               THEN <<>>
               ELSE (IF inLength THEN <<word>> ELSE <<>>)
                    \o (IF options.useBigram /\ Len(word) >= 2
                        THEN Bigrams(word) ELSE <<>>)
          ELSE <<>>

RECURSIVE ConcatAll(_)
ConcatAll(ss) == IF ss = <<>> THEN <<>> ELSE Head(ss) \o ConcatAll(Tail(ss))

\* tokenize(text, options): Array.from of the token Set
tokenize(text, options) ==
  LET normalized == normalizeText(text)
      words      == SplitFrom(normalized, 1, <<>>)
  IN SetFrom(ConcatAll([i \in 1..Len(words) |-> WordTokens(words[i], options)]))

\* the tokens one field value adds: a string is tokenized, the strings of an
\* array are tokenized one by one, anything else adds nothing
ValueTokens(value, options) ==
  IF value.kind = "string" THEN tokenize(value.chars, options)
  ELSE IF value.kind = "array"
       THEN ConcatAll([i \in 1..Len(value.items) |->
              IF value.items[i].kind = "string"
              THEN tokenize(value.items[i].chars, options)
              ELSE <<>>])
       ELSE <<>>

\* extractTokens(document, fields, options): Array.from of the union Set
extractTokens(document, fields, options) ==
  SetFrom(ConcatAll([i \in 1..Len(fields) |->
            ValueTokens(FieldValue(document, fields[i]), options)]))

RECURSIVE GCD(_, _)
GCD(a, b) == IF b = 0 THEN a ELSE GCD(b, a % b)

\* the number n / d (d > 0) as a fraction in lowest terms
Frac(n, d) == [num |-> n \div GCD(n, d), den |-> d \div GCD(n, d)]

Zero == [num |-> 0, den |-> 1]

\* a >= b for two fractions
FracGeq(a, b) == a.num * b.den >= b.num * a.den

\* the match count divided by the size of the document's token set instead
\* of the number of query tokens
calculateMatchScore_PerDocToken(queryTokens, docTokens) ==
  IF Len(queryTokens) = 0 \/ Len(docTokens) = 0 THEN Zero
  ELSE LET docTokenSet == SetFrom(docTokens)
           matchCount  == Cardinality({i \in 1..Len(queryTokens) :
                                         SetHas(docTokenSet, queryTokens[i])})
       IN Frac(matchCount, Len(docTokenSet))

\* calculateMatchScore(queryTokens, docTokens)
calculateMatchScore(queryTokens, docTokens) ==
  IF Len(queryTokens) = 0 THEN Zero
  ELSE LET docTokenSet == SetFrom(docTokens)
           matchCount  == Cardinality({i \in 1..Len(queryTokens) :
                                         SetHas(docTokenSet, queryTokens[i])})
       IN Frac(matchCount, Len(queryTokens))

(***************************************************************************)
(* InvertedIndex: the methods as functions of the index object             *)
(* st = [index, documents, documentTokens, stats]                          *)
(***************************************************************************)
RECURSIVE Sum(_)
Sum(ns) == IF ns = <<>> THEN 0 ELSE Head(ns) + Sum(Tail(ns))

\* updateStats()
updateStats(st) ==
  LET totalDocuments == Len(st.documents)
      totalDocTokens == Sum([i \in 1..Len(st.documentTokens) |->
                               Len(st.documentTokens[i].val)])
  IN [st EXCEPT !.stats =
        [totalDocuments |-> totalDocuments,
         totalTokens |-> Len(st.index),
         averageTokensPerDocument |->
           IF totalDocuments > 0 THEN Frac(totalDocTokens, totalDocuments)
           ELSE Zero]]

\* the constructor
NewIndex ==
  [index |-> <<>>, documents |-> <<>>, documentTokens |-> <<>>,
   stats |-> [totalDocuments |-> 0, totalTokens |-> 0,
              averageTokensPerDocument |-> Zero]]

\* the posting sets are left as they are
Unpost_Keep(idx, token, docId) == idx

\* the id leaves the posting set, but an empty set stays in the index
Unpost_NoPrune(idx, token, docId) ==
  IF MapHas(idx, token)
  THEN MapSet(idx, token, SetDelete(MapGet(idx, token), docId))
  ELSE idx

\* one turn of removeDocument's loop: the id leaves the token's posting set,
\* and the token leaves the index when that set becomes empty
Unpost(idx, token, docId) ==
  IF MapHas(idx, token)
  THEN LET docSet == SetDelete(MapGet(idx, token), docId)
       IN IF Len(docSet) = 0 THEN MapDelete(idx, token)
          ELSE MapSet(idx, token, docSet)
  ELSE idx

RECURSIVE UnpostAll(_, _, _, _)
UnpostAll(idx, tokens, i, docId) ==
  IF i > Len(tokens) THEN idx
  ELSE UnpostAll(Unpost(idx, tokens[i], docId), tokens, i + 1, docId)

\* this.documents.delete(docId) is forgotten
removeDocument_KeepDocument(st, docId) ==
  IF ~MapHas(st.documentTokens, docId) THEN st
  ELSE LET tokens == MapGet(st.documentTokens, docId)
       IN updateStats([st EXCEPT
            !.index = UnpostAll(st.index, tokens, 1, docId),
            !.documentTokens = MapDelete(st.documentTokens, docId)])

\* the document counter is decremented before the check for an unknown id
removeDocument_CountDown(st, docId) ==
  IF ~MapHas(st.documentTokens, docId)
  THEN [st EXCEPT !.stats.totalDocuments = @ - 1]
  ELSE LET tokens == MapGet(st.documentTokens, docId)
       IN updateStats([st EXCEPT
            !.index = UnpostAll(st.index, tokens, 1, docId),
            !.documents = MapDelete(st.documents, docId),
            !.documentTokens = MapDelete(st.documentTokens, docId)])

\* removeDocument(docId)
removeDocument(st, docId) ==
  IF ~MapHas(st.documentTokens, docId) THEN st
  ELSE LET tokens == MapGet(st.documentTokens, docId)
       IN updateStats([st EXCEPT
            !.index = UnpostAll(st.index, tokens, 1, docId),
            !.documents = MapDelete(st.documents, docId),
            !.documentTokens = MapDelete(st.documentTokens, docId)])

\* one turn of addDocument's loop
Post(idx, token, docId) ==
  LET withToken == IF MapHas(idx, token) THEN idx ELSE MapSet(idx, token, <<>>)
  IN MapSet(withToken, token, SetAdd(MapGet(withToken, token), docId))

RECURSIVE PostAll(_, _, _, _)
PostAll(idx, tokens, i, docId) ==
  IF i > Len(tokens) THEN idx
  ELSE PostAll(Post(idx, tokens[i], docId), tokens, i + 1, docId)

\* the default of the fields parameter
DefaultFields == <<"title", "content", "description", "tags">>

\* no removal of the indexed version
addDocument_KeepOld(st, docId, document, fields) ==
  LET tokens == extractTokens(document, fields, DefaultOptions)
  IN updateStats([st EXCEPT
       !.documents = MapSet(st.documents, docId, document),
       !.documentTokens = MapSet(st.documentTokens, docId, SetFrom(tokens)),
       !.index = PostAll(st.index, tokens, 1, docId)])

\* no removal of the indexed version, and a document counter that is
\* incremented instead of recomputed
addDocument_CountUp(st, docId, document, fields) ==
  LET tokens == extractTokens(document, fields, DefaultOptions)
      s1     == updateStats([st EXCEPT
                  !.documents = MapSet(st.documents, docId, document),
                  !.documentTokens = MapSet(st.documentTokens, docId, SetFrom(tokens)),
                  !.index = PostAll(st.index, tokens, 1, docId)])
  IN [s1 EXCEPT !.stats.totalDocuments = st.stats.totalDocuments + 1]

\* a document without tokens is stored with no token set
addDocument_SkipTokenless(st, docId, document, fields) ==
  LET s0     == IF MapHas(st.documents, docId) THEN removeDocument(st, docId) ELSE st
      tokens == extractTokens(document, fields, DefaultOptions)
  IN updateStats([s0 EXCEPT
       !.documents = MapSet(s0.documents, docId, document),
       !.documentTokens = IF tokens = <<>> THEN s0.documentTokens
                          ELSE MapSet(s0.documentTokens, docId, SetFrom(tokens)),
       !.index = PostAll(s0.index, tokens, 1, docId)])

\* addDocument(docId, document, fields)
addDocument(st, docId, document, fields) ==
  LET s0     == IF MapHas(st.documents, docId) THEN removeDocument(st, docId) ELSE st
      tokens == extractTokens(document, fields, DefaultOptions)
  IN updateStats([s0 EXCEPT
       !.documents = MapSet(s0.documents, docId, document),
       !.documentTokens = MapSet(s0.documentTokens, docId, SetFrom(tokens)),
       !.index = PostAll(s0.index, tokens, 1, docId)])

\* updateDocument(docId, document, fields)
updateDocument(st, docId, document, fields) ==
  addDocument(st, docId, document, fields)

RECURSIVE BulkAddFrom_Break(_, _, _, _)
\* break instead of continue at an element without an id
BulkAddFrom_Break(st, docs, i, fields) ==
  IF i > Len(docs) THEN st
  ELSE IF docs[i].id = <<>>
       THEN st
       ELSE BulkAddFrom_Break(addDocument(st, docs[i].id, docs[i], fields),
                              docs, i + 1, fields)

RECURSIVE BulkAddFrom(_, _, _, _)
\* the loop of bulkAdd from element i on; an id that is missing or '' is falsy
BulkAddFrom(st, docs, i, fields) ==
  IF i > Len(docs) THEN st
  ELSE IF docs[i].id = <<>>
       THEN BulkAddFrom(st, docs, i + 1, fields)
       ELSE BulkAddFrom(addDocument(st, docs[i].id, docs[i], fields),
                        docs, i + 1, fields)

\* bulkAdd(documents, fields)
bulkAdd(st, docs, fields) == BulkAddFrom(st, docs, 1, fields)

\* the maps are emptied and the statistics are left as they were
clear_StaleStats(st) ==
  [st EXCEPT !.index = <<>>, !.documents = <<>>, !.documentTokens = <<>>]

\* this.index.clear() is forgotten
clear_KeepIndex(st) ==
  updateStats([st EXCEPT !.documents = <<>>, !.documentTokens = <<>>])

\* clear()
clear(st) ==
  updateStats([st EXCEPT !.index = <<>>, !.documents = <<>>,
                         !.documentTokens = <<>>])

(***************************************************************************)
(* Queries                                                                 *)
(***************************************************************************)
DefaultLimit == 100

\* the default minScore, 0.1
DefaultMinScore == [num |-> 1, den |-> 10]

\* Array.prototype.slice(0, limit): a negative limit counts from the end
Slice(a, limit) ==
  LET end == IF limit >= 0 THEN (IF limit < Len(a) THEN limit ELSE Len(a))
             ELSE (IF Len(a) + limit > 0 THEN Len(a) + limit ELSE 0)
  IN SubSeq(a, 1, end)

\* a comparator with the operands swapped: ascending by score
InsertByScore_Ascending(sorted, x) ==
  LET n == Cardinality({i \in 1..Len(sorted) : FracGeq(x.score, sorted[i].score)})
  IN SubSeq(sorted, 1, n) \o <<x>> \o SubSeq(sorted, n + 1, Len(sorted))

\* x goes after the last element whose score is not below x's
InsertByScore(sorted, x) ==
  LET n == Cardinality({i \in 1..Len(sorted) : FracGeq(sorted[i].score, x.score)})
  IN SubSeq(sorted, 1, n) \o <<x>> \o SubSeq(sorted, n + 1, Len(sorted))

RECURSIVE SortFrom(_, _, _)
SortFrom(sorted, a, i) ==
  IF i > Len(a) THEN sorted ELSE SortFrom(InsertByScore(sorted, a[i]), a, i + 1)

\* results.sort((a, b) => b.score - a.score): descending by score and stable
\* no sort: the results stay in the order of discovery
SortByScore_Unsorted(results) == results

SortByScore(results) == SortFrom(<<>>, results, 1)

\* this.index.get(token) || new Set()
Posting(st, token) ==
  IF MapHas(st.index, token) THEN MapGet(st.index, token) ELSE <<>>

\* the narrowing left out: the candidates stay those of the first token
IntersectFrom_Keep(matching, docIdSets, i) == matching

RECURSIVE IntersectFrom(_, _, _)
\* the loop that narrows matchingDocIds by docIdSets[i], i = 1, 2, ...
IntersectFrom(matching, docIdSets, i) ==
  IF i > Len(docIdSets) THEN matching
  ELSE IntersectFrom(SelectSeq(matching, LAMBDA id : SetHas(docIdSets[i], id)),
                     docIdSets, i + 1)

\* the minScore test left out of the scoring loop
Score_NoThreshold(st, docIds, queryTokens, minScore) ==
  LET entry(docId) ==
        LET docTokens == IF MapHas(st.documentTokens, docId)
                         THEN MapGet(st.documentTokens, docId) ELSE <<>>
        IN [document |-> MapGet(st.documents, docId),
            score |-> calculateMatchScore(queryTokens, docTokens),
            matchedTokens |-> SelectSeq(queryTokens,
                                LAMBDA t : SetHas(docTokens, t))]
      known == SelectSeq(docIds, LAMBDA id : MapHas(st.documents, id))
  IN [i \in 1..Len(known) |-> entry(known[i])]

\* the scoring loop both searches share: the candidates that have a document
\* and score at least minScore, in candidate order
Score(st, docIds, queryTokens, minScore) ==
  LET entry(docId) ==
        LET docTokens == IF MapHas(st.documentTokens, docId)
                         THEN MapGet(st.documentTokens, docId) ELSE <<>>
        IN [document |-> MapGet(st.documents, docId),
            score |-> calculateMatchScore(queryTokens, docTokens),
            matchedTokens |-> SelectSeq(queryTokens,
                                LAMBDA t : SetHas(docTokens, t))]
      known == SelectSeq(docIds, LAMBDA id : MapHas(st.documents, id))
      all   == [i \in 1..Len(known) |-> entry(known[i])]
  IN SelectSeq(all, LAMBDA r : FracGeq(r.score, minScore))

\* what both searches return: the records, or the documents alone
Returned(limitedResults, includeScore) ==
  IF includeScore THEN limitedResults
  ELSE [i \in 1..Len(limitedResults) |-> limitedResults[i].document]

\* search(query, {limit, minScore, sortBy, includeScore})
search(st, query, options) ==
  LET queryTokens == tokenize(query, DefaultOptions)
  IN IF Len(queryTokens) = 0 THEN <<>>
     ELSE LET docIdSets == [i \in 1..Len(queryTokens) |->
                              Posting(st, queryTokens[i])]
              matchingDocIds == IntersectFrom(docIdSets[1], docIdSets, 2)
              results == Score(st, matchingDocIds, queryTokens, options.minScore)
              sorted  == IF options.sortBy = "score" THEN SortByScore(results)
                         ELSE results
          IN Returned(Slice(sorted, options.limit), options.includeScore)

\* searchOr(query, {limit, minScore, includeScore})
searchOr(st, query, options) ==
  LET queryTokens == tokenize(query, DefaultOptions)
  IN IF Len(queryTokens) = 0 THEN <<>>
     ELSE LET allDocIds == SetFrom(ConcatAll([i \in 1..Len(queryTokens) |->
                                     Posting(st, queryTokens[i])]))
              results == Score(st, allDocIds, queryTokens, options.minScore)
          IN Returned(Slice(SortByScore(results), options.limit),
                      options.includeScore)

\* String.prototype.startsWith
StartsWith(s, prefix) ==
  Len(prefix) <= Len(s) /\ SubSeq(s, 1, Len(prefix)) = prefix

\* the guard on an empty prefix left out
searchPrefix_NoEmptyCheck(st, prefix, options) ==
  LET normalizedPrefix == Trim([i \in 1..Len(prefix) |-> ToLowerCase(prefix[i])])
      hits == SelectSeq(st.index, LAMBDA e : StartsWith(e.key, normalizedPrefix))
      matchingDocIds == SetFrom(ConcatAll(Values(hits)))
      known == SelectSeq(matchingDocIds, LAMBDA id : MapHas(st.documents, id))
  IN Slice([i \in 1..Len(known) |-> MapGet(st.documents, known[i])],
           options.limit)

\* a minimum prefix length of two code units, as generatePrefixTokens has
searchPrefix_MinLength(st, prefix, options) ==
  LET normalizedPrefix == Trim([i \in 1..Len(prefix) |-> ToLowerCase(prefix[i])])
  IN IF Len(normalizedPrefix) < 2 THEN <<>>
     ELSE LET hits == SelectSeq(st.index,
                        LAMBDA e : StartsWith(e.key, normalizedPrefix))
              matchingDocIds == SetFrom(ConcatAll(Values(hits)))
              known == SelectSeq(matchingDocIds,
                         LAMBDA id : MapHas(st.documents, id))
          IN Slice([i \in 1..Len(known) |-> MapGet(st.documents, known[i])],
                   options.limit)

\* searchPrefix(prefix, {limit})
searchPrefix(st, prefix, options) ==
  LET normalizedPrefix == Trim([i \in 1..Len(prefix) |-> ToLowerCase(prefix[i])])
  IN IF normalizedPrefix = <<>> THEN <<>>
     ELSE LET hits == SelectSeq(st.index,
                        LAMBDA e : StartsWith(e.key, normalizedPrefix))
              matchingDocIds == SetFrom(ConcatAll(Values(hits)))
              known == SelectSeq(matchingDocIds,
                         LAMBDA id : MapHas(st.documents, id))
          IN Slice([i \in 1..Len(known) |-> MapGet(st.documents, known[i])],
                   options.limit)

\* estimateIndexSize()
estimateIndexSize(st) ==
  Sum([i \in 1..Len(st.index) |->
         Len(st.index[i].key) * 2 + Len(st.index[i].val) * 50])
  + Sum([i \in 1..Len(st.documentTokens) |->
           Len(st.documentTokens[i].key) * 2 + Len(st.documentTokens[i].val) * 20])

\* getStats()
getStats(st) ==
  [totalDocuments |-> st.stats.totalDocuments,
   totalTokens |-> st.stats.totalTokens,
   averageTokensPerDocument |-> st.stats.averageTokensPerDocument,
   indexSizeBytes |-> estimateIndexSize(st)]

(***************************************************************************)
(* Serialization                                                           *)
(***************************************************************************)
\* the statistics of a new index in place of the current ones
export_EmptyStats(st) ==
  [index |-> [i \in 1..Len(st.index) |->
                [token |-> st.index[i].key, docIds |-> st.index[i].val]],
   documents |-> [i \in 1..Len(st.documents) |->
                    [id |-> st.documents[i].key,
                     document |-> st.documents[i].val]],
   documentTokens |-> [i \in 1..Len(st.documentTokens) |->
                         [id |-> st.documentTokens[i].key,
                          tokens |-> st.documentTokens[i].val]],
   stats |-> NewIndex.stats]

\* export(): the three maps flattened to arrays of plain records
export(st) ==
  [index |-> [i \in 1..Len(st.index) |->
                [token |-> st.index[i].key, docIds |-> st.index[i].val]],
   documents |-> [i \in 1..Len(st.documents) |->
                    [id |-> st.documents[i].key,
                     document |-> st.documents[i].val]],
   documentTokens |-> [i \in 1..Len(st.documentTokens) |->
                         [id |-> st.documentTokens[i].key,
                          tokens |-> st.documentTokens[i].val]],
   stats |-> st.stats]

RECURSIVE RestoreIndex(_, _, _)
RestoreIndex(idx, entries, i) ==
  IF i > Len(entries) THEN idx
  ELSE RestoreIndex(MapSet(idx, entries[i].token, SetFrom(entries[i].docIds)),
                    entries, i + 1)

RECURSIVE RestoreDocuments(_, _, _)
RestoreDocuments(docs, entries, i) ==
  IF i > Len(entries) THEN docs
  ELSE RestoreDocuments(MapSet(docs, entries[i].id, entries[i].document),
                        entries, i + 1)

RECURSIVE RestoreDocumentTokens(_, _, _)
RestoreDocumentTokens(dt, entries, i) ==
  IF i > Len(entries) THEN dt
  ELSE RestoreDocumentTokens(MapSet(dt, entries[i].id, SetFrom(entries[i].tokens)),
                             entries, i + 1)

\* the per-document token sets are not restored
import_NoTokenSets(st, data) ==
  LET s0 == clear(st)
  IN updateStats([s0 EXCEPT
       !.index = RestoreIndex(s0.index, data.index, 1),
       !.documents = RestoreDocuments(s0.documents, data.documents, 1)])

\* import(data) stops with a TypeError at the first of its three loops whose
\* array the data does not have: for..of over undefined
importThrows(data) ==
  {"index", "documents", "documentTokens"} \ DOMAIN data # {}

\* import(data): the state the call leaves, whether it returns or throws; what
\* the loops before the throw restored stays, and the statistics are those
\* clear() computed
import(st, data) ==
  LET s0 == clear(st)
  IN IF "index" \notin DOMAIN data THEN s0
     ELSE LET s1 == [s0 EXCEPT !.index = RestoreIndex(s0.index, data.index, 1)]
          IN IF "documents" \notin DOMAIN data THEN s1
             ELSE LET s2 == [s1 EXCEPT !.documents =
                               RestoreDocuments(s1.documents, data.documents, 1)]
                  IN IF "documentTokens" \notin DOMAIN data THEN s2
                     ELSE updateStats([s2 EXCEPT !.documentTokens =
                            RestoreDocumentTokens(s2.documentTokens,
                                                  data.documentTokens, 1)])

(***************************************************************************)
(* findMatchPositions (src/app.js): one call as a state machine.  scan is  *)
(* the frame of the call: the normalized text, the token list, the number  *)
(* of the token the for loop is at, the local index, the positions pushed  *)
(* so far and the place the call has reached.                              *)
(***************************************************************************)
(***************************************************************************)
(* What the read-only methods leave of the index.  None of them has a      *)
(* statement that writes to this.index, this.documents, this.documentTokens *)
(* or this.stats: the maps are read with get, entries and values, and the  *)
(* sets and arrays that are filled or sorted are local ones.               *)
(***************************************************************************)
\* the intersection written into the posting set of the first query token
searchLeaves_InPlace(st, query, options) ==
  LET queryTokens == tokenize(query, DefaultOptions)
      docIdSets   == [i \in 1..Len(queryTokens) |-> Posting(st, queryTokens[i])]
  IN IF Len(queryTokens) = 0 \/ ~MapHas(st.index, queryTokens[1]) THEN st
     ELSE [st EXCEPT !.index = MapSet(st.index, queryTokens[1],
                                      IntersectFrom(docIdSets[1], docIdSets, 2))]

\* search(): matchingDocIds starts as the posting set of the first query
\* token itself, and every intersection is a new Set
searchLeaves(st, query, options) == st

\* searchOr(): the ids are added to the local Set allDocIds
searchOrLeaves(st, query, options) == st

\* searchPrefix(): the ids are added to the local Set matchingDocIds
searchPrefixLeaves(st, prefix, options) == st

\* getStats(): a new object with the fields of this.stats
getStatsLeaves(st) == st

\* export(): new arrays made from the entries of the maps
exportLeaves(st) == st

\* no read-only call of the index
NoAnswer == [call |-> "none"]

\* no call of tokenize
NoCall ==
  [pc |-> "idle", text |-> <<>>, options |-> DefaultOptions, tokens |-> <<>>]

\* no call of findMatchPositions
NoScan ==
  [pc |-> "idle", normalized |-> <<>>, queryTokens |-> <<>>, token |-> 0,
   index |-> 0, positions |-> <<>>]

\* String.prototype.indexOf(searchString, position), 0-based; the empty
\* string is found at min(position, length)
IndexOf(s, searchString, position) ==
  LET found == {k \in position..(Len(s) - Len(searchString)) :
                  SubSeq(s, k + 1, k + Len(searchString)) = searchString}
  IN IF searchString = <<>>
     THEN (IF position < Len(s) THEN position ELSE Len(s))
     ELSE IF found = {} THEN -1
     ELSE CHOOSE k \in found : \A m \in found : k <= m

\* a position at the front of those that start later
InsertByStart_Descending(sorted, x) ==
  LET n == Cardinality({i \in 1..Len(sorted) : sorted[i].start > x.start})
  IN SubSeq(sorted, 1, n) \o <<x>> \o SubSeq(sorted, n + 1, Len(sorted))

\* a position behind those that start no later
InsertByStart(sorted, x) ==
  LET n == Cardinality({i \in 1..Len(sorted) : sorted[i].start <= x.start})
  IN SubSeq(sorted, 1, n) \o <<x>> \o SubSeq(sorted, n + 1, Len(sorted))

RECURSIVE SortByStartFrom(_, _, _)
SortByStartFrom(sorted, a, i) ==
  IF i > Len(a) THEN sorted
  ELSE SortByStartFrom(InsertByStart(sorted, a[i]), a, i + 1)

\* positions.sort((a, b) => a.start - b.start): ascending by start, stable
SortByStart(positions) == SortByStartFrom(<<>>, positions, 1)

(***************************************************************************)
(* The index as a state machine: one action per mutating method.           *)
(* removed holds the ids that removeDocument took out of the index and     *)
(* that no later call has brought back.                                    *)
(***************************************************************************)
NumIds == 2

MaxBulk == 2

\* the document ids "1", "2", ...
Id(n) == <<48 + n>>

DocIds == {Id(n) : n \in 1..NumIds}

\* the id of a bulkAdd element that has none
NoId == <<>>

\* title "ab cd", tags ["ef"]
ContentWords == [title |-> Str(<<97, 98, 32, 99, 100>>),
                 tags |-> Arr(<<Str(<<101, 102>>)>>)]

\* title "Cd The", no tags: upper case and an English stopword
ContentStopword == [title |-> Str(<<67, 100, 32, 84, 104, 101>>), tags |-> Undefined]

\* title U+54C1 U+8CEA U+7BA1 U+7406 (four ideographs), tags ["Ab"]
ContentKanji == [title |-> Str(<<21697, 36074, 31649, 29702>>),
                 tags |-> Arr(<<Str(<<65, 98>>)>>)]

\* title "a", no tags: a document without any token
ContentShort == [title |-> Str(<<97>>), tags |-> Undefined]

Contents == {ContentWords, ContentStopword, ContentKanji, ContentShort}

MakeDoc(id, content) == [id |-> id, title |-> content.title, tags |-> content.tags]

\* the documents callers index: addDocument(doc.id, doc, fields)
Docs == {MakeDoc(id, c) : id \in DocIds, c \in Contents}

\* the elements of a bulkAdd list: two versions of document "1" and an
\* element that has no id
BulkDocs == {MakeDoc(Id(1), ContentWords), MakeDoc(Id(1), ContentShort),
             MakeDoc(NoId, ContentKanji)}

\* the lists handed to bulkAdd: up to MaxBulk of these elements, each at most
\* once, in every order
BulkLists ==
  {docs \in UNION {[1..n -> BulkDocs] : n \in 0..MaxBulk} :
     \A i, j \in 1..Len(docs) : docs[i] = docs[j] => i = j}

FieldSets == {<<"title">>, DefaultFields}

\* serialized indexes a caller may hold: exports of freshly built indexes
ImportData ==
  {export(bulkAdd(NewIndex, docs, fields)) : docs \in BulkLists, fields \in FieldSets}

\* the export of an index that holds document "1", "ab cd" with tag "ef"
ExportWords ==
  export(addDocument(NewIndex, Id(1), MakeDoc(Id(1), ContentWords), DefaultFields))

\* the export of an index that holds document "2", four ideographs
ExportKanji ==
  export(addDocument(NewIndex, Id(2), MakeDoc(Id(2), ContentKanji), <<"title">>))

\* the export of an index that holds both
ExportBoth ==
  export(addDocument(
    addDocument(NewIndex, Id(1), MakeDoc(Id(1), ContentWords), DefaultFields),
    Id(2), MakeDoc(Id(2), ContentKanji), <<"title">>))

\* serialized data no export produces: an object that lacks one of the three
\* arrays, and the three arrays taken from exports of different indexes
InvalidData ==
  {[documents |-> ExportWords.documents,
    documentTokens |-> ExportWords.documentTokens, stats |-> ExportWords.stats],
   [index |-> ExportWords.index,
    documentTokens |-> ExportWords.documentTokens, stats |-> ExportWords.stats],
   [index |-> ExportWords.index,
    documents |-> ExportWords.documents, stats |-> ExportWords.stats]}
  \cup
  ({[index |-> a.index, documents |-> b.documents,
     documentTokens |-> c.documentTokens, stats |-> a.stats] :
      a, b, c \in {ExportWords, ExportKanji, ExportBoth}}
   \ {ExportWords, ExportKanji, ExportBoth})

St == [index |-> index, documents |-> documents,
       documentTokens |-> documentTokens, stats |-> stats]

Become(s) ==
  /\ index' = s.index
  /\ documents' = s.documents
  /\ documentTokens' = s.documentTokens
  /\ stats' = s.stats

\* the ids removed earlier that the call did not bring back
StillRemoved(s) == removed \ Range(Keys(s.documents))

Init ==
  /\ index = NewIndex.index
  /\ documents = NewIndex.documents
  /\ documentTokens = NewIndex.documentTokens
  /\ stats = NewIndex.stats
  /\ removed = {}
  /\ store = <<>>
  /\ indexReady = FALSE
  /\ isInitialized = FALSE
  /\ tasks = <<>>
  /\ nextId = 1
  /\ scan = NoScan
  /\ tok = NoCall
  /\ answer = NoAnswer

AddDocument(docId, document, fields) ==
  LET s == addDocument(St, docId, document, fields)
  IN /\ Become(s)
     /\ removed' = StillRemoved(s)
     /\ UNCHANGED <<facade, scan, tok, answer>>

UpdateDocument(docId, document, fields) ==
  LET s == updateDocument(St, docId, document, fields)
  IN /\ Become(s)
     /\ removed' = StillRemoved(s)
     /\ UNCHANGED <<facade, scan, tok, answer>>

RemoveDocument(docId) ==
  LET s == removeDocument(St, docId)
  IN /\ Become(s)
     /\ removed' = IF MapHas(documents, docId) THEN removed \cup {docId}
                   ELSE removed
     /\ UNCHANGED <<facade, scan, tok, answer>>

BulkAdd(docs, fields) ==
  LET s == bulkAdd(St, docs, fields)
  IN /\ Become(s)
     /\ removed' = StillRemoved(s)
     /\ UNCHANGED <<facade, scan, tok, answer>>

Clear ==
  /\ Become(clear(St))
  /\ UNCHANGED <<removed, facade, scan, tok, answer>>

Import(data) ==
  LET s == import(St, data)
  IN /\ Become(s)
     /\ removed' = StillRemoved(s)
     /\ UNCHANGED <<facade, scan, tok, answer>>

\* the caller's round trip: data = export(); clear(); import(data)
ExportClearImport ==
  LET data == export(St)
      s    == import(clear(St), data)
  IN /\ Become(s)
     /\ removed' = StillRemoved(s)
     /\ UNCHANGED <<facade, scan, tok, answer>>

\* the calls that change an index in place: addDocument, updateDocument,
\* removeDocument, bulkAdd and clear
NextMutation ==
  \/ \E d \in Docs, fields \in FieldSets : AddDocument(d.id, d, fields)
  \/ \E d \in Docs, fields \in FieldSets : UpdateDocument(d.id, d, fields)
  \/ \E docId \in DocIds : RemoveDocument(docId)
  \/ \E docs \in BulkLists, fields \in FieldSets : BulkAdd(docs, fields)
  \/ Clear

SpecMutation == Init /\ [][NextMutation]_vars

\* every call that changes an index, import included
Next ==
  \/ \E d \in Docs, fields \in FieldSets : AddDocument(d.id, d, fields)
  \/ \E d \in Docs, fields \in FieldSets : UpdateDocument(d.id, d, fields)
  \/ \E docId \in DocIds : RemoveDocument(docId)
  \/ \E docs \in BulkLists, fields \in FieldSets : BulkAdd(docs, fields)
  \/ Clear
  \/ \E data \in ImportData : Import(data)
  \/ ExportClearImport

Spec == Init /\ [][Next]_vars

\* a caller that restores the index from serialized data, some of which did
\* not come from export, and then removes documents, adds batches, clears and
\* exports
NextUnvalidated ==
  \/ \E docId \in DocIds : RemoveDocument(docId)
  \/ \E docs \in BulkLists, fields \in FieldSets : BulkAdd(docs, fields)
  \/ Clear
  \/ \E data \in ImportData \cup InvalidData : Import(data)
  \/ ExportClearImport

SpecUnvalidated == Init /\ [][NextUnvalidated]_vars

(***************************************************************************)
(* Queries and options the properties range over                           *)
(***************************************************************************)
\* "ab", "ab cd", "cd ef", U+7BA1 U+7406 (a bi-gram of the four ideographs),
\* "zz" (indexed nowhere) and "" (no token)
Queries == {<<97, 98>>, <<97, 98, 32, 99, 100>>, <<99, 100, 32, 101, 102>>,
            <<31649, 29702>>, <<122, 122>>, <<>>}

\* "a", "c", "ab", U+54C1 (the first ideograph), " " and ""
Prefixes == {<<97>>, <<99>>, <<97, 98>>, <<21697>>, <<32>>, <<>>}

\* slice(0, -1) drops the last result; 1 cuts an answer of two
Limits == {-1, 1, DefaultLimit}

\* the default 0.1, which admits a score of 1/2, and 1, which does not
MinScores == {DefaultMinScore, [num |-> 1, den |-> 1]}

SearchOptions ==
  {[limit |-> l, minScore |-> m, sortBy |-> sb, includeScore |-> b] :
     l \in Limits, m \in MinScores, sb \in {"score", "relevance"}, b \in BOOLEAN}

DefaultSearchOptions ==
  [limit |-> DefaultLimit, minScore |-> DefaultMinScore, sortBy |-> "score",
   includeScore |-> TRUE]

\* the ids of the documents a search returned
ResultIds(result, includeScore) ==
  IF includeScore THEN {result[i].document.id : i \in 1..Len(result)}
  ELSE {result[i].id : i \in 1..Len(result)}

\* the tokens whose posting set holds the id
TokensPosting(idx, docId) ==
  {idx[i].key : i \in {j \in 1..Len(idx) : SetHas(idx[j].val, docId)}}

NoDuplicates(s) == Cardinality(Range(s)) = Len(s)

(***************************************************************************)
(* Properties                                                              *)
(***************************************************************************)
\* C1: in every state reached from the empty index by addDocument,
\* updateDocument, removeDocument, bulkAdd and clear, a document id is in the
\* posting set of a token iff the token is in the token set of that document
C1_PostingsMatchTokenSets ==
  /\ \A i \in 1..Len(index) : \A d \in Range(index[i].val) :
       /\ MapHas(documentTokens, d)
       /\ SetHas(MapGet(documentTokens, d), index[i].key)
  /\ \A j \in 1..Len(documentTokens) : \A t \in Range(documentTokens[j].val) :
       /\ MapHas(index, t)
       /\ SetHas(MapGet(index, t), documentTokens[j].key)

\* two documents are indexed; they share a token and one of them has a token
\* of its own
C1_Witness ==
  /\ Len(documents) = 2
  /\ \E i \in 1..Len(index) : Len(index[i].val) = 2
  /\ \E i \in 1..Len(index) : Len(index[i].val) = 1

\* C2: for every query and every options object, the ids search returns are
\* among the ids searchOr returns with the same options
C2_AndWithinOr ==
  \A q \in Queries, o \in SearchOptions :
    ResultIds(search(St, q, o), o.includeScore)
      \subseteq ResultIds(searchOr(St, q, o), o.includeScore)

\* for one query two documents hold every token and the limit 1 cuts the
\* answer of both searches; for another, searchOr returns a document that
\* search does not
C2_Witness ==
  LET one == [DefaultSearchOptions EXCEPT !.limit = 1]
  IN /\ \E q \in Queries :
          /\ Len(search(St, q, DefaultSearchOptions)) = 2
          /\ Len(search(St, q, one)) = 1
          /\ Len(searchOr(St, q, one)) = 1
     /\ \E q \in Queries :
          /\ Len(search(St, q, DefaultSearchOptions)) = 1
          /\ Len(searchOr(St, q, DefaultSearchOptions)) = 2

\* C3: data = export(), then clear(), then import(data), on the same index or
\* on a fresh one, gives back the index, documents and documentTokens maps and
\* the stats of before the export, hence the same getStats() and the same
\* answers, in the same order, of search, searchOr and searchPrefix
C3_ExportImportRoundTrip ==
  LET data  == export(St)
      same  == import(clear(St), data)
      fresh == import(NewIndex, data)
  IN /\ same = St
     /\ fresh = St
     /\ getStats(same) = getStats(St)
     /\ \A q \in Queries :
          /\ search(same, q, DefaultSearchOptions)
               = search(St, q, DefaultSearchOptions)
          /\ searchOr(fresh, q, DefaultSearchOptions)
               = searchOr(St, q, DefaultSearchOptions)
     /\ \A pre \in Prefixes :
          searchPrefix(same, pre, DefaultSearchOptions)
            = searchPrefix(St, pre, DefaultSearchOptions)

\* the index exported holds two documents that share a token
C3_Witness ==
  /\ Len(export(St).documents) = 2
  /\ \E i \in 1..Len(export(St).index) : Len(export(St).index[i].docIds) = 2

\* C4: addDocument(id, doc, fields) called twice in a row leaves index,
\* documents, documentTokens and stats as calling it once does; the id is once
\* in each posting set and the second call does not change totalDocuments
C4_AddTwiceIsAddOnce ==
  \A d \in Docs, fields \in FieldSets :
    LET once  == addDocument(St, d.id, d, fields)
        twice == addDocument(once, d.id, d, fields)
    IN /\ twice = once
       /\ twice.stats.totalDocuments = once.stats.totalDocuments
       /\ \A i \in 1..Len(twice.index) : NoDuplicates(twice.index[i].val)

\* the first of the two calls replaces an indexed document by one with other
\* tokens, while another document is indexed
C4_Witness ==
  /\ Len(documents) = 2
  /\ \E d \in Docs, fields \in FieldSets :
       /\ MapHas(documents, d.id)
       /\ Range(Keys(addDocument(St, d.id, d, fields).index)) # Range(Keys(index))

\* C5: updateDocument(id, newDoc, fields) gives the state of removeDocument(id)
\* followed by addDocument(id, newDoc, fields): the token set of id is that of
\* the new version, id is in the posting sets of exactly those tokens, no
\* posting set is empty, and the postings of the other documents are unchanged;
\* for an unknown id it does what addDocument does
C5_UpdateIsRemoveThenAdd ==
  \A d \in Docs, fields \in FieldSets :
    LET after  == updateDocument(St, d.id, d, fields)
        tokens == Range(extractTokens(d, fields, DefaultOptions))
    IN /\ after = addDocument(removeDocument(St, d.id), d.id, d, fields)
       /\ Range(MapGet(after.documentTokens, d.id)) = tokens
       /\ TokensPosting(after.index, d.id) = tokens
       /\ \A i \in 1..Len(after.index) : Len(after.index[i].val) >= 1
       /\ \A e \in DocIds \ {d.id} :
            TokensPosting(after.index, e) = TokensPosting(index, e)
       /\ ~MapHas(documents, d.id) =>
            after = addDocument(St, d.id, d, fields)

\* an update of an indexed document prunes a token only its old version had,
\* while another document is indexed
C5_Witness ==
  /\ Len(documents) = 2
  /\ \E d \in Docs, fields \in FieldSets :
       /\ MapHas(documents, d.id)
       /\ \E t \in Range(Keys(index)) :
            ~MapHas(updateDocument(St, d.id, d, fields).index, t)

\* C6: no token of the index has an empty posting set, and the keys of the
\* index are the union of the token sets of the indexed documents
C6_NoEmptyPostingSet ==
  /\ \A i \in 1..Len(index) : Len(index[i].val) >= 1
  /\ Range(Keys(index))
       = UNION {Range(documentTokens[j].val) : j \in 1..Len(documentTokens)}

\* a removal has left one document, whose tokens are all the index holds
C6_Witness ==
  /\ removed # {}
  /\ Len(documents) = 1 /\ Len(index) >= 1

\* C7: an id that removeDocument took out and that was not added again is a
\* key of neither documents nor documentTokens and is returned by no search;
\* and removing an indexed id lowers getStats().totalDocuments by one
C7_RemovedStaysOut ==
  /\ \A id \in removed :
       /\ ~MapHas(documents, id)
       /\ ~MapHas(documentTokens, id)
       /\ \A o \in SearchOptions :
            /\ \A q \in Queries :
                 /\ id \notin ResultIds(search(St, q, o), o.includeScore)
                 /\ id \notin ResultIds(searchOr(St, q, o), o.includeScore)
            /\ \A pre \in Prefixes :
                 id \notin ResultIds(searchPrefix(St, pre, o), FALSE)
  /\ \A id \in DocIds :
       MapHas(documents, id) =>
         getStats(removeDocument(St, id)).totalDocuments
           = getStats(St).totalDocuments - 1

\* an id was removed, and a search returns the document that is left
C7_Witness ==
  /\ removed # {}
  /\ \E q \in Queries : Len(search(St, q, DefaultSearchOptions)) = 1

\* C8: removeDocument(id) of an id that is not indexed leaves index, documents,
\* documentTokens and stats as they were
C8_RemoveUnknownIsNoOp ==
  \A id \in DocIds \cup {Id(0)} :
    ~MapHas(documents, id) => removeDocument(St, id) = St

\* an id that was never indexed can be removed from an index that holds a
\* document with tokens
C8_Witness ==
  /\ removed = {}
  /\ Len(documents) = 1 /\ Len(index) >= 1
  /\ \E id \in DocIds : ~MapHas(documents, id)

RECURSIVE AddInTurn(_, _, _)
\* addDocument(doc.id, doc, fields) for the elements of a list, in list order
AddInTurn(st, docs, fields) ==
  IF docs = <<>> THEN st
  ELSE AddInTurn(addDocument(st, Head(docs).id, Head(docs), fields),
                 Tail(docs), fields)

\* C9: bulkAdd(docs, fields) leaves the index as the sequence of
\* addDocument(doc.id, doc, fields) calls, in list order, for exactly the
\* elements that have an id
C9_BulkAddIsSequentialAdd ==
  \A docs \in BulkLists, fields \in FieldSets :
    bulkAdd(St, docs, fields)
      = AddInTurn(St, SelectSeq(docs, LAMBDA d : d.id # NoId), fields)

\* a list whose first element has no id and whose second has one changes an
\* index that holds another document
C9_Witness ==
  /\ MapHas(documents, Id(2))
  /\ \E docs \in BulkLists :
       /\ Len(docs) >= 2 /\ docs[1].id = NoId /\ docs[2].id # NoId
       /\ bulkAdd(St, docs, DefaultFields) # St

\* C10: totalDocuments is the number of keys of documents, totalTokens the
\* number of keys of index, and averageTokensPerDocument the sum of the sizes of
\* the token sets divided by totalDocuments, 0 without documents
C10_StatsMatchMaps ==
  LET s   == getStats(St)
      sum == Sum([j \in 1..Len(documentTokens) |->
                    Cardinality(Range(documentTokens[j].val))])
  IN /\ s.totalDocuments = Cardinality(Range(Keys(documents)))
     /\ s.totalTokens = Cardinality(Range(Keys(index)))
     /\ s.averageTokensPerDocument.den >= 1
     /\ IF s.totalDocuments = 0
        THEN s.averageTokensPerDocument.num = 0
        ELSE s.averageTokensPerDocument.num * s.totalDocuments
               = sum * s.averageTokensPerDocument.den

\* two documents are indexed and the average is not a whole number
C10_Witness ==
  /\ stats.totalDocuments = 2
  /\ stats.averageTokensPerDocument.den = 2

\* the indexed ids, in the order of the documents map, whose token set holds
\* every token of the list
HoldingAll(queryTokens) ==
  {documentTokens[j].key :
     j \in {k \in 1..Len(documentTokens) :
              \A t \in Range(queryTokens) : SetHas(documentTokens[k].val, t)}}

\* the options C11 speaks of: scores included, a limit of at least the number
\* of indexed documents and a minScore of at most 1
WideOptions ==
  {o \in SearchOptions :
     o.includeScore /\ o.limit >= Len(documents)
       /\ FracGeq([num |-> 1, den |-> 1], o.minScore)}

\* C11: with a limit of at least the number of documents and minScore <= 1,
\* search returns exactly the indexed documents whose token set holds every
\* query token, each once, with score 1 and all query tokens as matchedTokens;
\* a query token that is not in the index makes the answer empty
C11_SearchIsIntersection ==
  \A q \in Queries, o \in WideOptions :
    LET queryTokens == tokenize(q, DefaultOptions)
        result      == search(St, q, o)
    IN Len(queryTokens) > 0 =>
         /\ NoDuplicates(result)
         /\ Range(result)
              = {[document |-> MapGet(documents, d),
                  score |-> [num |-> 1, den |-> 1],
                  matchedTokens |-> queryTokens] : d \in HoldingAll(queryTokens)}
         /\ (\E t \in Range(queryTokens) : ~MapHas(index, t)) => result = <<>>

\* for a query of two tokens one indexed document holds both and another holds
\* only the first
C11_Witness ==
  \E q \in Queries :
    LET queryTokens == tokenize(q, DefaultOptions)
    IN /\ Len(queryTokens) = 2
       /\ Len(search(St, q, DefaultSearchOptions)) = 1
       /\ Len(Posting(St, queryTokens[1])) = 2

\* the number of tokens of the list that the token set of document d holds
Matched(queryTokens, d) ==
  Cardinality({i \in 1..Len(queryTokens) :
                 SetHas(MapGet(documentTokens, d), queryTokens[i])})

\* the options C12 speaks of: a limit of at least the number of indexed
\* documents; minScore 0 is among them
UncutOptions ==
  {o \in SearchOptions \cup {[DefaultSearchOptions EXCEPT !.minScore = Zero]} :
     o.limit >= Len(documents)}

\* C12: with a limit of at least the number of documents, searchOr returns
\* exactly the indexed documents that hold at least one query token and whose
\* ratio of matched query tokens to query tokens is at least minScore, each once
C12_SearchOrIsUnionAboveMinScore ==
  \A q \in Queries, o \in UncutOptions :
    LET queryTokens == tokenize(q, DefaultOptions)
        result      == searchOr(St, q, o)
    IN Len(queryTokens) > 0 =>
         /\ Len(result) = Cardinality(ResultIds(result, o.includeScore))
         /\ ResultIds(result, o.includeScore)
              = {d \in Range(Keys(documents)) :
                   /\ Matched(queryTokens, d) >= 1
                   /\ Matched(queryTokens, d) * o.minScore.den
                        >= o.minScore.num * Len(queryTokens)}

\* for one query a document holds both tokens, another holds one and minScore 1
\* keeps the latter out; for another query, with minScore 0, the document that
\* holds none of its tokens is left out
C12_Witness ==
  /\ \E q \in Queries :
       /\ Len(searchOr(St, q, DefaultSearchOptions)) = 2
       /\ Len(searchOr(St, q, [DefaultSearchOptions EXCEPT
                                 !.minScore = [num |-> 1, den |-> 1]])) = 1
  /\ \E q \in Queries :
       /\ Len(documents) = 2
       /\ Len(searchOr(St, q, [DefaultSearchOptions EXCEPT !.minScore = Zero])) = 1

\* the options under which the searches return scores; minScore 0 is among them
ScoredOptions ==
  {o \in SearchOptions \cup {[DefaultSearchOptions EXCEPT !.minScore = Zero]} :
     o.includeScore}

\* C13: every score search or searchOr returns is at least 0 and at most 1, and
\* a returned document whose token set holds every query token has score 1
C13_ScoreBounds ==
  \A q \in Queries, o \in ScoredOptions :
    LET queryTokens == tokenize(q, DefaultOptions)
        ok(r) ==
          /\ r.score.den >= 1 /\ r.score.num >= 0 /\ r.score.num <= r.score.den
          /\ r.document.id \in HoldingAll(queryTokens) =>
               r.score = [num |-> 1, den |-> 1]
    IN /\ \A r \in Range(search(St, q, o)) : ok(r)
       /\ \A r \in Range(searchOr(St, q, o)) : ok(r)

\* searchOr returns one document with score 1 and one with a score strictly
\* between 0 and 1, and the first has more tokens than the query
C13_Witness ==
  \E q \in Queries :
    LET result == searchOr(St, q, DefaultSearchOptions)
    IN /\ Len(result) = 2
       /\ result[1].score = [num |-> 1, den |-> 1]
       /\ result[2].score = [num |-> 1, den |-> 2]
       /\ Len(MapGet(documentTokens, result[1].document.id))
            > Len(tokenize(q, DefaultOptions))

\* "", " ", two spaces, a tab and a line feed, U+3000 (the fullwidth space), and
\* a space around U+3000
BlankTexts == {<<>>, <<32>>, <<32, 32>>, <<9, 10>>, <<12288>>, <<32, 12288, 32>>}

\* C14: for a query or prefix that is empty or only white space, ASCII or
\* fullwidth, search, searchOr and searchPrefix return the empty list
C14_BlankQueryFindsNothing ==
  \A q \in BlankTexts, o \in SearchOptions :
    /\ search(St, q, o) = <<>>
    /\ searchOr(St, q, o) = <<>>
    /\ searchPrefix(St, q, o) = <<>>

\* two documents with tokens are indexed, so there is something to find
C14_Witness ==
  /\ Len(documents) = 2
  /\ \A j \in 1..Len(documentTokens) : Len(documentTokens[j].val) >= 1
  /\ \E pre \in Prefixes : Len(searchPrefix(St, pre, DefaultSearchOptions)) = 2

\* prefix.toLowerCase().trim(), the form searchPrefix compares tokens with
LowerTrim(prefix) == Trim([i \in 1..Len(prefix) |-> ToLowerCase(prefix[i])])

\* C15 as stated: a prefix that is not empty but shorter than 2 characters
\* after normalization makes searchPrefix return the empty list
C15_ShortPrefixFindsNothing ==
  \A pre \in Prefixes, o \in SearchOptions :
    (Len(normalizeText(pre)) >= 1 /\ Len(normalizeText(pre)) < DefaultMinLength)
      => searchPrefix(St, pre, o) = <<>>

\* C15 as amended: searchPrefix returns the empty list for a prefix that is
\* empty after lowercasing and trimming; for a prefix of one character and a
\* limit of at least 1 it returns the empty list only when no indexed token
\* starts with that character
C15_OnlyEmptyPrefixIsRejected ==
  \A pre \in Prefixes, o \in SearchOptions :
    LET result == searchPrefix(St, pre, o)
    IN /\ LowerTrim(pre) = <<>> => result = <<>>
       /\ (Len(LowerTrim(pre)) = 1 /\ o.limit >= 1) =>
            (result = <<>> <=>
               ~\E t \in Range(Keys(index)) : StartsWith(t, LowerTrim(pre)))

\* one prefix of one character finds a document and another finds none
C15_Witness ==
  /\ \E pre \in Prefixes :
       Len(pre) = 1 /\ Len(searchPrefix(St, pre, DefaultSearchOptions)) >= 1
  /\ \E pre \in Prefixes :
       /\ Len(LowerTrim(pre)) = 1
       /\ searchPrefix(St, pre, DefaultSearchOptions) = <<>>
  /\ Len(documents) >= 1

\* the prefixes above, fullwidth "AB" (U+FF21 U+FF22) and " Ab "
WidePrefixes == Prefixes \cup {<<65313, 65314>>, <<32, 65, 98, 32>>}

\* the indexed ids that have a token starting with the prefix
HavingTokenWith(prefix) ==
  {documentTokens[j].key :
     j \in {k \in 1..Len(documentTokens) :
              \E t \in Range(documentTokens[k].val) : StartsWith(t, prefix)}}

\* C16: for a prefix that normalizeText does not make empty, searchPrefix
\* returns, each at most once and at most limit of them, only documents that
\* have an indexed token starting with normalizeText(prefix), and all of them
\* when the limit is at least the number of documents
C16_PrefixFindsNormalizedMatches ==
  \A pre \in WidePrefixes, o \in SearchOptions :
    LET result == searchPrefix(St, pre, o)
        ids    == ResultIds(result, FALSE)
    IN (normalizeText(pre) # <<>> /\ o.limit >= 0) =>
         /\ Len(result) = Cardinality(ids)
         /\ Len(result) <= o.limit
         /\ ids \subseteq HavingTokenWith(normalizeText(pre))
         /\ o.limit >= Len(documents) =>
              ids = HavingTokenWith(normalizeText(pre))

\* the posting sets and the token sets of a state agree in both directions
PostingsMatch(s) ==
  /\ \A i \in 1..Len(s.index) : \A d \in Range(s.index[i].val) :
       /\ MapHas(s.documentTokens, d)
       /\ SetHas(MapGet(s.documentTokens, d), s.index[i].key)
  /\ \A j \in 1..Len(s.documentTokens) : \A t \in Range(s.documentTokens[j].val) :
       /\ MapHas(s.index, t)
       /\ SetHas(MapGet(s.index, t), s.documentTokens[j].key)

\* C17: after import of data that lacks an array or whose arrays disagree, the
\* posting sets and the token sets of the index agree in both directions,
\* whether the call returned or threw, and when it threw the index is the one
\* held before the call
C17_InvalidImportKeepsInvariant ==
  \A data \in InvalidData :
    LET s == import(St, data)
    IN /\ PostingsMatch(s)
       /\ importThrows(data) => s = St

\* the document lists of a rebuild: the bulkAdd lists above and the list of
\* documents "1" and "2"
AllDocuments ==
  BulkLists \cup {<<MakeDoc(Id(1), ContentWords), MakeDoc(Id(2), ContentKanji)>>}

\* C18: from any state, one left by an import of inconsistent data included,
\* clear() followed by bulkAdd(allDocuments, fields) gives the index,
\* documents, documentTokens and stats of a new index after the same bulkAdd
C18_ClearThenBulkAddIsFreshBuild ==
  \A docs \in AllDocuments, fields \in FieldSets :
    bulkAdd(clear(St), docs, fields) = bulkAdd(NewIndex, docs, fields)

\* the index holds postings that no token set backs, left by an import of
\* inconsistent data, and the statistics are those of an empty index
C18_Witness ==
  /\ ~PostingsMatch(St)
  /\ Len(index) >= 1
  /\ stats.totalTokens = 0

(***************************************************************************)
(* The search facade, TemplateManager of ROADMAP.md: a document store, the *)
(* index above as its searchIndex, and asynchronous methods.  A method     *)
(* runs from one await to the next without interruption; the storage call  *)
(* it awaits takes effect in one step and the method resumes in a later    *)
(* one, so that steps of other calls can come in between.                  *)
(***************************************************************************)
MaxTasks == 2

TaskIds == 1..MaxTasks

\* the fields buildSearchIndex and the CRUD methods index
TemplateFields ==
  <<"name", "description", "category", "tags", "promptTemplate", "contextTemplate">>

\* the names templates are given: "ab" and "cd ef"
TemplateNames == {<<97, 98>>, <<99, 100, 32, 101, 102>>}

Template(id, name, author) == [id |-> id, name |-> Str(name), author |-> author]

\* the system template that the store holds when the facade is constructed;
\* init() finds it and does not load the defaults again
SystemTemplate == Template(Id(0), <<97, 98>>, "system")

\* a slot without a call in flight
Idle == [op |-> "idle", pc |-> "idle", id |-> NoId, arg |-> <<>>, got |-> <<>>]

AllIdle == \A t \in TaskIds : tasks[t].op = "idle"

StoreIds == {store[i].id : i \in 1..Len(store)}

\* this.storage.findById(id): the record, or nothing
FindById(id) == SelectSeq(store, LAMBDA item : item.id = id)

\* after the constructor: nothing indexed, nothing in flight
InitFacade ==
  /\ index = NewIndex.index
  /\ documents = NewIndex.documents
  /\ documentTokens = NewIndex.documentTokens
  /\ stats = NewIndex.stats
  /\ removed = {}
  /\ store = <<SystemTemplate>>
  /\ indexReady = FALSE
  /\ isInitialized = FALSE
  /\ tasks = [t \in TaskIds |-> Idle]
  /\ nextId = 1
  /\ scan = NoScan
  /\ tok = NoCall
  /\ answer = NoAnswer

\* a step of call t that ends it or moves it to its next await
Goto(t, task) == tasks' = [tasks EXCEPT ![t] = task]

\* init(), which callers await before any other call: the system templates
\* are there, so buildSearchIndex() alone runs
Initialize ==
  /\ ~isInitialized /\ AllIdle
  /\ Become(bulkAdd(clear(St), store, TemplateFields))
  /\ indexReady' = TRUE
  /\ isInitialized' = TRUE
  /\ UNCHANGED <<removed, scan, tok, store, tasks, nextId, answer>>

\* rebuildSearchIndex() is called: buildSearchIndex() awaits storage.getAll()
StartRebuild(t) ==
  /\ isInitialized /\ tasks[t].op = "idle"
  /\ Goto(t, [Idle EXCEPT !.op = "rebuild", !.pc = "getAll"])
  /\ UNCHANGED <<index, documents, documentTokens, stats, removed, scan, tok,
                 store, indexReady, isInitialized, nextId, answer>>

\* storage.getAll() reads the store
GetAll(t) ==
  /\ tasks[t].pc = "getAll"
  /\ Goto(t, [tasks[t] EXCEPT !.pc = "build", !.got = store])
  /\ UNCHANGED <<index, documents, documentTokens, stats, removed, scan, tok,
                 store, indexReady, isInitialized, nextId, answer>>

\* buildSearchIndex() resumes: clear(), bulkAdd(templates, fields), indexReady
Build(t) ==
  /\ tasks[t].pc = "build"
  /\ Become(bulkAdd(clear(St), tasks[t].got, TemplateFields))
  /\ indexReady' = TRUE
  /\ Goto(t, Idle)
  /\ UNCHANGED <<removed, scan, tok, store, isInitialized, nextId, answer>>

\* createCustomTemplate(templateData) is called: the template is valid and
\* the method awaits storage.add(template)
StartCreate(t, name) ==
  /\ isInitialized /\ tasks[t].op = "idle"
  /\ nextId <= NumIds
  /\ Goto(t, [Idle EXCEPT !.op = "create", !.pc = "add",
                          !.arg = <<Template(NoId, name, "custom")>>])
  /\ UNCHANGED <<index, documents, documentTokens, stats, removed, scan, tok,
                 store, indexReady, isInitialized, nextId, answer>>

\* storage.add(item) gives the item a new id and appends it to the store
Add(t) ==
  /\ tasks[t].op = "create" /\ tasks[t].pc = "add"
  /\ LET item == [tasks[t].arg[1] EXCEPT !.id = Id(nextId)]
     IN /\ store' = Append(store, item)
        /\ Goto(t, [tasks[t] EXCEPT !.pc = "index", !.got = <<item>>])
  /\ nextId' = nextId + 1
  /\ UNCHANGED <<index, documents, documentTokens, stats, removed, scan, tok,
                 indexReady, isInitialized, answer>>

\* createCustomTemplate resumes: addDocument(result.id, result, fields) when
\* the index is ready
IndexAdd(t) ==
  /\ tasks[t].op = "create" /\ tasks[t].pc = "index"
  /\ LET result == tasks[t].got[1]
     IN IF indexReady
        THEN Become(addDocument(St, result.id, result, TemplateFields))
        ELSE UNCHANGED <<index, documents, documentTokens, stats>>
  /\ Goto(t, Idle)
  /\ UNCHANGED <<removed, scan, tok, store, indexReady, isInitialized, nextId, answer>>

\* updateTemplate(templateId, updates) is called and awaits findById
StartUpdate(t, id, name) ==
  /\ isInitialized /\ tasks[t].op = "idle"
  /\ Goto(t, [Idle EXCEPT !.op = "update", !.pc = "findById", !.id = id,
                          !.arg = <<name>>])
  /\ UNCHANGED <<index, documents, documentTokens, stats, removed, scan, tok,
                 store, indexReady, isInitialized, nextId, answer>>

\* deleteTemplate(templateId) is called and awaits findById
StartDelete(t, id) ==
  /\ isInitialized /\ tasks[t].op = "idle"
  /\ Goto(t, [Idle EXCEPT !.op = "delete", !.pc = "findById", !.id = id])
  /\ UNCHANGED <<index, documents, documentTokens, stats, removed, scan, tok,
                 store, indexReady, isInitialized, nextId, answer>>

\* storage.findById reads the store and the method resumes: it throws for an
\* unknown id and for a system template, else it awaits storage.update with
\* the template it read merged with the updates, or storage.delete
Find(t) ==
  /\ tasks[t].pc = "findById"
  /\ LET found == FindById(tasks[t].id)
     IN IF found = <<>> \/ found[1].author = "system"
        THEN Goto(t, Idle)
        ELSE IF tasks[t].op = "update"
             THEN Goto(t, [tasks[t] EXCEPT !.pc = "update",
                             !.arg = <<[found[1] EXCEPT
                                          !.name = Str(tasks[t].arg[1])]>>])
             ELSE Goto(t, [tasks[t] EXCEPT !.pc = "delete"])
  /\ UNCHANGED <<index, documents, documentTokens, stats, removed, scan, tok,
                 store, indexReady, isInitialized, nextId, answer>>

\* storage.update(id, updatedTemplate): the record is replaced where it
\* stands; null when the store no longer has the id
Update(t) ==
  /\ tasks[t].op = "update" /\ tasks[t].pc = "update"
  /\ LET known == FindById(tasks[t].id) # <<>>
     IN /\ store' = [i \in 1..Len(store) |->
                       IF store[i].id = tasks[t].id THEN tasks[t].arg[1]
                       ELSE store[i]]
        /\ Goto(t, [tasks[t] EXCEPT !.pc = "index",
                      !.got = IF known THEN tasks[t].arg ELSE <<>>])
  /\ UNCHANGED <<index, documents, documentTokens, stats, removed, scan, tok,
                 indexReady, isInitialized, nextId, answer>>

\* updateTemplate resumes: updateDocument(templateId, result, fields) when the
\* index is ready; with result null, addDocument removes the indexed version
\* and then throws in extractTokens
IndexUpdate(t) ==
  /\ tasks[t].op = "update" /\ tasks[t].pc = "index"
  /\ LET id == tasks[t].id
     IN IF ~indexReady
        THEN UNCHANGED <<index, documents, documentTokens, stats>>
        ELSE IF tasks[t].got = <<>>
             THEN Become(IF MapHas(documents, id) THEN removeDocument(St, id)
                         ELSE St)
             ELSE Become(updateDocument(St, id, tasks[t].got[1], TemplateFields))
  /\ Goto(t, Idle)
  /\ UNCHANGED <<removed, scan, tok, store, indexReady, isInitialized, nextId, answer>>

\* storage.delete(id)
Delete(t) ==
  /\ tasks[t].op = "delete" /\ tasks[t].pc = "delete"
  /\ store' = SelectSeq(store, LAMBDA item : item.id # tasks[t].id)
  /\ Goto(t, [tasks[t] EXCEPT !.pc = "index"])
  /\ UNCHANGED <<index, documents, documentTokens, stats, removed, scan, tok,
                 indexReady, isInitialized, nextId, answer>>

\* deleteTemplate resumes: removeDocument(templateId) when the index is ready
IndexRemove(t) ==
  /\ tasks[t].op = "delete" /\ tasks[t].pc = "index"
  /\ IF indexReady THEN Become(removeDocument(St, tasks[t].id))
     ELSE UNCHANGED <<index, documents, documentTokens, stats>>
  /\ Goto(t, Idle)
  /\ UNCHANGED <<removed, scan, tok, store, indexReady, isInitialized, nextId, answer>>

\* the arrays importTemplates parses: up to MaxBulk templates with different
\* names
TemplateLists ==
  {names \in UNION {[1..n -> TemplateNames] : n \in 0..MaxBulk} :
     \A i, j \in 1..Len(names) : names[i] = names[j] => i = j}

\* importTemplates(jsonString) is called: the JSON is an array; the method
\* awaits storage.add for its first element, or returns when it has none
StartImport(t, names) ==
  /\ isInitialized /\ tasks[t].op = "idle"
  /\ nextId + Len(names) - 1 <= NumIds
  /\ Goto(t, IF names = <<>> THEN Idle
             ELSE [Idle EXCEPT !.op = "import", !.pc = "add",
                     !.arg = [i \in 1..Len(names) |->
                                Template(NoId, names[i], "custom")]])
  /\ UNCHANGED <<index, documents, documentTokens, stats, removed, scan, tok,
                 store, indexReady, isInitialized, nextId, answer>>

\* storage.add of the next element of the import; importTemplates resumes,
\* pushes the result and goes on with the loop, the index is not touched
ImportAdd(t) ==
  /\ tasks[t].op = "import" /\ tasks[t].pc = "add"
  /\ LET item == [tasks[t].arg[1] EXCEPT !.id = Id(nextId)]
         rest == Tail(tasks[t].arg)
     IN /\ store' = Append(store, item)
        /\ Goto(t, IF rest = <<>> THEN Idle
                   ELSE [tasks[t] EXCEPT !.arg = rest,
                           !.got = Append(tasks[t].got, item)])
  /\ nextId' = nextId + 1
  /\ UNCHANGED <<index, documents, documentTokens, stats, removed, scan, tok,
                 indexReady, isInitialized, answer>>

\* rebuilds and the three CRUD methods, overlapping at their awaits
NextFacade ==
  \/ Initialize
  \/ \E t \in TaskIds : StartRebuild(t)
  \/ \E t \in TaskIds : GetAll(t)
  \/ \E t \in TaskIds : Build(t)
  \/ \E t \in TaskIds, name \in TemplateNames : StartCreate(t, name)
  \/ \E t \in TaskIds : Add(t)
  \/ \E t \in TaskIds : IndexAdd(t)
  \/ \E t \in TaskIds, id \in DocIds \cup {Id(0)}, name \in TemplateNames :
       StartUpdate(t, id, name)
  \/ \E t \in TaskIds, id \in DocIds \cup {Id(0)} : StartDelete(t, id)
  \/ \E t \in TaskIds : Find(t)
  \/ \E t \in TaskIds : Update(t)
  \/ \E t \in TaskIds : IndexUpdate(t)
  \/ \E t \in TaskIds : Delete(t)
  \/ \E t \in TaskIds : IndexRemove(t)

SpecFacade == InitFacade /\ [][NextFacade]_vars

\* the store-mutating methods called one after the other: a call starts when
\* no other call is in flight
CreateAlone(t, name) == AllIdle /\ StartCreate(t, name)

UpdateAlone(t, id, name) == AllIdle /\ StartUpdate(t, id, name)

DeleteAlone(t, id) == AllIdle /\ StartDelete(t, id)

ImportAlone(t, names) == AllIdle /\ StartImport(t, names)

NextFacadeSequential ==
  \/ Initialize
  \/ \E t \in TaskIds, name \in TemplateNames : CreateAlone(t, name)
  \/ \E t \in TaskIds : Add(t)
  \/ \E t \in TaskIds : IndexAdd(t)
  \/ \E t \in TaskIds, id \in DocIds \cup {Id(0)}, name \in TemplateNames :
       UpdateAlone(t, id, name)
  \/ \E t \in TaskIds, id \in DocIds \cup {Id(0)} : DeleteAlone(t, id)
  \/ \E t \in TaskIds : Find(t)
  \/ \E t \in TaskIds : Update(t)
  \/ \E t \in TaskIds : IndexUpdate(t)
  \/ \E t \in TaskIds : Delete(t)
  \/ \E t \in TaskIds : IndexRemove(t)
  \/ \E t \in TaskIds, names \in TemplateLists : ImportAlone(t, names)
  \/ \E t \in TaskIds : ImportAdd(t)

SpecFacadeSequential == InitFacade /\ [][NextFacadeSequential]_vars

\* the ids of the indexed documents
IndexedIds == Range(Keys(documents))

\* C19: once every call of an interleaving of rebuilds with
\* createCustomTemplate, updateTemplate and deleteTemplate has completed, the
\* ids of the indexed documents are the ids of the records in the store
C19_RebuildIsSafeAtAnyTime ==
  (isInitialized /\ AllIdle) => IndexedIds = StoreIds

\* C20: after initialization, through calls of createCustomTemplate,
\* updateTemplate, deleteTemplate and importTemplates that do not overlap,
\* whenever indexReady holds and no call is in flight the ids of the indexed
\* documents are the ids of the records in the store
C20_IndexFollowsStore ==
  (isInitialized /\ indexReady /\ AllIdle) => IndexedIds = StoreIds

(***************************************************************************)
(* The exported statistics                                                 *)
(***************************************************************************)
\* the fields of the stats object the index keeps
StoredStatsFields == {"totalDocuments", "totalTokens", "averageTokensPerDocument"}

\* C21 as claimed: the stats object of export() has the fields of getStats(),
\* indexSizeBytes included, with the same values
C21_ExportStatsMirrorGetStats ==
  export(St).stats = getStats(St)

\* C21: the stats object of export() has the three stored fields, with the
\* values getStats() gives them, and no indexSizeBytes
C21_ExportStatsAreStoredStats ==
  LET exported == export(St).stats
  IN /\ DOMAIN exported = StoredStatsFields
     /\ \A f \in StoredStatsFields : exported[f] = getStats(St)[f]

\* an index of two documents whose average number of tokens is not zero
C21_Witness ==
  /\ export(St).stats.totalDocuments = 2
  /\ export(St).stats.averageTokensPerDocument # Zero
  /\ getStats(St).indexSizeBytes > 0

(***************************************************************************)
(* Ranking and truncation                                                  *)
(***************************************************************************)
\* the options of a ranked search: sortBy 'score', scores included
RankedOptions(limits) ==
  {[limit |-> l, minScore |-> m, sortBy |-> "score", includeScore |-> TRUE] :
     l \in limits, m \in MinScores}

\* the ranked answer `cut` against the answer `full` of the same search with a
\* limit no answer reaches: at most limit entries, scores not increasing, and
\* no entry of `full` left out that scores more than an entry of `cut`
RankedAndCut(cut, full, limit) ==
  /\ Len(cut) <= limit
  /\ \A i, j \in 1..Len(cut) : i < j => FracGeq(cut[i].score, cut[j].score)
  /\ \A k \in 1..Len(full) :
       (\A i \in 1..Len(cut) : cut[i].document.id # full[k].document.id)
         => \A i \in 1..Len(cut) : FracGeq(cut[i].score, full[k].score)

TopRanked(limits) ==
  \A q \in Queries, o \in RankedOptions(limits) :
    LET all == [o EXCEPT !.limit = DefaultLimit]
    IN /\ RankedAndCut(searchOr(St, q, o), searchOr(St, q, all), o.limit)
       /\ RankedAndCut(search(St, q, o), search(St, q, all), o.limit)

\* C22 as claimed: for any limit, a negative one included, the ranked answers
\* of searchOr and search have at most limit entries, in order of
\* non-increasing score, and leave out no document that scores more than a
\* returned one
C22_TopRankedForAnyLimit == TopRanked(Limits \cup {0})

\* C22: for any limit that is not negative, the ranked answers of searchOr and
\* search have at most limit entries, in order of non-increasing score, and
\* leave out no document that scores more than a returned one
C22_TopRankedWithinLimit == TopRanked((Limits \cup {0}) \ {-1})

\* searchOr finds two documents, the one indexed first with the lower score,
\* and the limit 1 keeps the other
C22_Witness ==
  \E q \in Queries :
    LET full == searchOr(St, q, DefaultSearchOptions)
        cut  == searchOr(St, q, [DefaultSearchOptions EXCEPT !.limit = 1])
    IN /\ Len(full) = 2
       /\ Len(cut) = 1
       /\ ~FracGeq(full[2].score, full[1].score)
       /\ documents[1].key = full[2].document.id
       /\ cut[1] = full[1]

(***************************************************************************)
(* The searches of the facade (ROADMAP.md).  An options object is a record *)
(* that has only the fields the caller set.                                *)
(***************************************************************************)
\* a destructured option with its default
Option(options, field, default) ==
  IF field \in DOMAIN options THEN options[field] ELSE default

\* r.document of an element r: undefined when r has no such property
DocumentOf(r) == IF "document" \in DOMAIN r THEN r.document ELSE Undefined

\* String.prototype.includes
Includes(s, sub) ==
  \E i \in 0..(Len(s) - Len(sub)) : SubSeq(s, i + 1, i + Len(sub)) = sub

\* searchTemplates(query, options); mode 'auto'.  Neither storage adapter has
\* a searchText method, so that without the index the name filter answers.
searchTemplates(ready, st, templates, query, options) ==
  LET limit        == Option(options, "limit", DefaultLimit)
      minScore     == Option(options, "minScore", DefaultMinScore)
      includeScore == Option(options, "includeScore", FALSE)
  IN IF Trim(query) = <<>> THEN templates
     ELSE IF ready
     THEN LET results == search(st, query,
                           [limit |-> limit, minScore |-> minScore,
                            sortBy |-> "score", includeScore |-> includeScore])
          IN IF includeScore THEN results
             ELSE [i \in 1..Len(results) |-> DocumentOf(results[i])]
     ELSE LET lowerQuery == [i \in 1..Len(query) |-> ToLowerCase(query[i])]
          IN SelectSeq(templates, LAMBDA t :
               Includes([i \in 1..Len(t.name.chars) |-> ToLowerCase(t.name.chars[i])],
                        lowerQuery))

\* searchTemplatesOr(query, options)
searchTemplatesOr(ready, st, templates, query, options) ==
  IF ~ready THEN searchTemplates(ready, st, templates, query, options)
  ELSE LET results == searchOr(st, query,
                        [limit |-> Option(options, "limit", DefaultLimit),
                         minScore |-> Option(options, "minScore", DefaultMinScore),
                         sortBy |-> "score",
                         includeScore |-> Option(options, "includeScore", TRUE)])
       IN IF Option(options, "includeScore", FALSE) THEN results
          ELSE [i \in 1..Len(results) |-> DocumentOf(results[i])]

\* no option set
NoOptions == <<>>

\* the queries that are not blank
FacadeQueries == {q \in Queries : Trim(q) # <<>>}

\* the documents of the records the index's search and searchOr return
MatchedBy(results) == [i \in 1..Len(results) |-> results[i].document]

\* C23: with the index ready, searchTemplates and searchTemplatesOr without
\* options return the template records the index's search and searchOr match,
\* one element for each and none of them undefined; with includeScore true
\* they return the records {document, score, matchedTokens} of the index
C23_FacadeSearchReturnsTemplates ==
  indexReady =>
    \A q \in FacadeQueries :
      LET and == search(St, q, DefaultSearchOptions)
          or  == searchOr(St, q, DefaultSearchOptions)
      IN /\ searchTemplates(indexReady, St, store, q, NoOptions) = MatchedBy(and)
         /\ searchTemplatesOr(indexReady, St, store, q, NoOptions) = MatchedBy(or)
         /\ \A i \in 1..Len(and) :
              searchTemplates(indexReady, St, store, q, NoOptions)[i] # Undefined
         /\ searchTemplates(indexReady, St, store, q, [includeScore |-> TRUE]) = and
         /\ searchTemplatesOr(indexReady, St, store, q, [includeScore |-> TRUE]) = or

(***************************************************************************)
(* findMatchPositions: the calls                                           *)
(***************************************************************************)
MaxText == 3

MaxTokens == 2

\* a terminating call pushes at most one position for every offset of the
\* text and every token; the scan stops one push above that
MaxPositions == MaxTokens * (MaxText + 1) + 1

\* the texts: "a", "A" and "b" in every combination up to MaxText characters
ScanTexts == UNION {[1..n -> {97, 65, 98}] : n \in 0..MaxText}

\* the tokens "a", "aa", "ab" and the empty string
ScanTokens == {<<97>>, <<97, 97>>, <<97, 98>>, <<>>}

ScanTokenLists == UNION {[1..n -> ScanTokens] : n \in 0..MaxTokens}

\* findMatchPositions(text, queryTokens) up to the for loop
InitHighlight ==
  /\ index = NewIndex.index
  /\ documents = NewIndex.documents
  /\ documentTokens = NewIndex.documentTokens
  /\ stats = NewIndex.stats
  /\ removed = {}
  /\ store = <<>>
  /\ indexReady = FALSE
  /\ isInitialized = FALSE
  /\ tasks = <<>>
  /\ nextId = 1
  /\ \E text \in ScanTexts, tokens \in ScanTokenLists :
       scan = [pc |-> "for", normalized |-> normalizeText(text),
               queryTokens |-> tokens, token |-> 1, index |-> 0,
               positions |-> <<>>]
  /\ tok = NoCall
  /\ answer = NoAnswer

\* for (const token of queryTokens): let index = 0, or the end of the loop
For ==
  /\ scan.pc = "for"
  /\ scan' = IF scan.token <= Len(scan.queryTokens)
             THEN [scan EXCEPT !.index = 0, !.pc = "while"]
             ELSE [scan EXCEPT !.pc = "sort"]
  /\ UNCHANGED <<index, documents, documentTokens, stats, removed, facade,
                 tok, answer>>

\* one turn of while (true): indexOf, then break or push and advance
While ==
  /\ scan.pc = "while"
  /\ Len(scan.positions) < MaxPositions
  /\ LET token == scan.queryTokens[scan.token]
         found == IndexOf(scan.normalized, token, scan.index)
     IN scan' = IF found = -1
                THEN [scan EXCEPT !.token = @ + 1, !.pc = "for"]
                ELSE [scan EXCEPT
                        !.positions = Append(@, [start |-> found,
                                                 end |-> found + Len(token),
                                                 token |-> token]),
                        !.index = found + Len(token)]
  /\ UNCHANGED <<index, documents, documentTokens, stats, removed, facade,
                 tok, answer>>

\* positions.sort(...); return positions
Sort ==
  /\ scan.pc = "sort"
  /\ scan' = [scan EXCEPT !.positions = SortByStart(@), !.pc = "done"]
  /\ UNCHANGED <<index, documents, documentTokens, stats, removed, facade,
                 tok, answer>>

NextHighlight == For \/ While \/ Sort

SpecHighlight == InitHighlight /\ [][NextHighlight]_vars

\* the call keeps running as long as it has a step to take
SpecHighlightFair == SpecHighlight /\ WF_vars(NextHighlight)

\* the offsets at which the token occurs in the text
Occurrences(text, token) ==
  {k \in 0..(Len(text) - Len(token)) :
     SubSeq(text, k + 1, k + Len(token)) = token}

\* the call has returned scan.positions
ScanReturned == scan.pc = "done"

\* the positions are in order of non-decreasing start
SortedByStart(positions) ==
  \A i, j \in 1..Len(positions) :
    i < j => positions[i].start <= positions[j].start

\* the start offsets reported for the token
ReportedStarts(token) ==
  {p.start : p \in {x \in Range(scan.positions) : x.token = token}}

\* C24 as claimed: the returned list, sorted by start, holds every occurrence
\* of every token in the normalized text, those included that overlap another
\* occurrence of the same token
C24_EveryOccurrenceReported ==
  ScanReturned =>
    /\ SortedByStart(scan.positions)
    /\ Range(scan.positions) =
         UNION {{[start |-> k, end |-> k + Len(t), token |-> t] :
                   k \in Occurrences(scan.normalized, t)} :
                  t \in Range(scan.queryTokens)}

\* C24: the returned list, sorted by start, holds for every token the
\* occurrences a scan from the left finds when it resumes at the end of each
\* match: the first occurrence, and every occurrence that does not begin
\* inside a reported occurrence of the same token; occurrences of different
\* tokens that overlap are all reported; each entry is {start, end = start +
\* token length, token}
C24_OccurrencesOfLeftToRightScan ==
  ScanReturned =>
    /\ SortedByStart(scan.positions)
    /\ \A p \in Range(scan.positions) :
         /\ p.token \in Range(scan.queryTokens)
         /\ p.end = p.start + Len(p.token)
    /\ Len(scan.positions) =
         Sum([i \in 1..Len(scan.queryTokens) |->
                Cardinality(ReportedStarts(scan.queryTokens[i]))])
    /\ \A t \in Range(scan.queryTokens) :
         LET reported == ReportedStarts(t)
             all      == Occurrences(scan.normalized, t)
         IN /\ reported \subseteq all
            /\ \A a, b \in reported : a < b => a + Len(t) <= b
            /\ \A o \in all \ reported :
                 \E r \in reported : r < o /\ o < r + Len(t)

\* "a" and "aa" are looked for in "aaa": "aa" occurs at offsets 0 and 1 and
\* is returned for offset 0 only, sorted between the occurrences of "a" that
\* were pushed before it
C24_Witness ==
  /\ ScanReturned
  /\ scan.normalized = <<97, 97, 97>>
  /\ scan.queryTokens = <<<<97>>, <<97, 97>>>>
  /\ Len(scan.positions) = 4
  /\ scan.positions[2] = [start |-> 0, end |-> 2, token |-> <<97, 97>>]

\* C26: every call of findMatchPositions returns, whatever the text and the
\* token list, one that holds the empty string included
C26_FindMatchPositionsTerminates == <>ScanReturned

(***************************************************************************)
(* tokenize (src/app.js): the calls.  tok is the frame of one call: the    *)
(* text, the options and, once the call has returned, the token list.      *)
(***************************************************************************)
MaxChars == 3

\* "i", "s", Hiragana KO (U+3053) and TO (U+3068), and the space: "is" is an
\* English stopword, TO, KO TO and KO KO are Japanese stopwords
TokenizeChars == {105, 115, 12371, 12392, 32}

TokenizeTexts == UNION {[1..n -> TokenizeChars] : n \in 0..MaxChars}

TokenizeOptions ==
  {[DefaultOptions EXCEPT !.minLength = m, !.useBigram = b,
                          !.removeStopwords = r] :
     m \in {DefaultMinLength, DefaultMinLength + 1},
     b \in BOOLEAN, r \in BOOLEAN}

InitTokenize ==
  /\ index = NewIndex.index
  /\ documents = NewIndex.documents
  /\ documentTokens = NewIndex.documentTokens
  /\ stats = NewIndex.stats
  /\ removed = {}
  /\ store = <<>>
  /\ indexReady = FALSE
  /\ isInitialized = FALSE
  /\ tasks = <<>>
  /\ nextId = 1
  /\ scan = NoScan
  /\ \E text \in TokenizeTexts, options \in TokenizeOptions :
       tok = [pc |-> "call", text |-> text, options |-> options,
              tokens |-> <<>>]
  /\ answer = NoAnswer

\* tokenize(text, options) runs and returns
Tokenize ==
  /\ tok.pc = "call"
  /\ tok' = [tok EXCEPT !.tokens = tokenize(tok.text, tok.options),
                        !.pc = "done"]
  /\ UNCHANGED <<index, documents, documentTokens, stats, removed, facade,
                 scan, answer>>

NextTokenize == Tokenize

SpecTokenize == InitTokenize /\ [][NextTokenize]_vars

\* the call has returned tok.tokens
Tokenized == tok.pc = "done"

\* the text is one word of the split, with a Hiragana, Katakana or ideograph
\* character in it
JapaneseWord(text) ==
  /\ SplitFrom(normalizeText(text), 1, <<>>) = <<text>>
  /\ \E i \in 1..Len(text) : IsJapanese(text[i])

\* the pairs of adjacent characters of the word that are both Hiragana,
\* Katakana or ideographs
JapanesePairs(word) ==
  {SubSeq(word, i, i + 1) :
     i \in {j \in 1..(Len(word) - 1) :
              IsJapanese(word[j]) /\ IsJapanese(word[j + 1])}}

\* the tokens of two characters are the pairs of the word in which both
\* characters are Japanese, and besides them at most the word itself, added
\* as a whole word of two characters
BigramsAreJapanesePairs(word, options, tokens) ==
  /\ JapanesePairs(word) \subseteq Range(tokens)
  /\ \A t \in Range(tokens) :
       Len(t) = 2 =>
         \/ t \in JapanesePairs(word)
         \/ t = word /\ options.minLength <= 2

\* C25 as claimed: for every word with a Japanese character and useBigram,
\* the tokens of two characters that the sliding window adds are exactly the
\* adjacent pairs of two Japanese characters
C25_BigramsAreJapanesePairs ==
  (Tokenized /\ tok.options.useBigram /\ JapaneseWord(tok.text))
    => BigramsAreJapanesePairs(tok.text, tok.options, tok.tokens)

\* the word is dropped before the sliding window: removeStopwords and the
\* word is a Japanese stopword
DroppedAsStopword(word, options) ==
  options.removeStopwords /\ word \in JAPANESE_STOPWORDS

\* C25: for every word with a Japanese character that is not dropped as a
\* stopword, and useBigram, the tokens of two characters that the sliding
\* window adds are exactly the adjacent pairs of two Japanese characters;
\* for a word dropped as a stopword no token is added
C25_BigramsOfKeptWords ==
  (Tokenized /\ tok.options.useBigram /\ JapaneseWord(tok.text))
    => IF DroppedAsStopword(tok.text, tok.options)
       THEN tok.tokens = <<>>
       ELSE BigramsAreJapanesePairs(tok.text, tok.options, tok.tokens)

\* the word "s", KO, TO: one pair of Japanese characters, which is the only
\* token of two characters, and the pair "s", KO is not a token
C25_Witness ==
  /\ Tokenized
  /\ tok.options.useBigram
  /\ tok.text = <<115, 12371, 12392>>
  /\ <<12371, 12392>> \in Range(tok.tokens)
  /\ <<115, 12371>> \notin Range(tok.tokens)

BuildLists ==
  {docs \in UNION {[1..n -> Docs] : n \in 0..MaxBulk} :
     \A i, j \in 1..Len(docs) : docs[i].id = docs[j].id => i = j}

\* the options of the calls: the defaults and a limit of 1
QueryOptions == {DefaultSearchOptions, [DefaultSearchOptions EXCEPT !.limit = 1]}

InitQuery ==
  /\ \E docs \in BuildLists, fields \in FieldSets :
       LET s == bulkAdd(NewIndex, docs, fields)
       IN /\ index = s.index
          /\ documents = s.documents
          /\ documentTokens = s.documentTokens
          /\ stats = s.stats
  /\ removed = {}
  /\ store = <<>>
  /\ indexReady = FALSE
  /\ isInitialized = FALSE
  /\ tasks = <<>>
  /\ nextId = 1
  /\ scan = NoScan
  /\ tok = NoCall
  /\ answer = NoAnswer

Answer(call, args, value) ==
  answer' = [call |-> call, args |-> args, value |-> value, before |-> St]

Search(query, options) ==
  /\ Answer("search", <<query, options>>, search(St, query, options))
  /\ Become(searchLeaves(St, query, options))
  /\ UNCHANGED <<removed, facade, scan, tok>>

SearchOr(query, options) ==
  /\ Answer("searchOr", <<query, options>>, searchOr(St, query, options))
  /\ Become(searchOrLeaves(St, query, options))
  /\ UNCHANGED <<removed, facade, scan, tok>>

SearchPrefix(prefix, options) ==
  /\ Answer("searchPrefix", <<prefix, options>>,
            searchPrefix(St, prefix, options))
  /\ Become(searchPrefixLeaves(St, prefix, options))
  /\ UNCHANGED <<removed, facade, scan, tok>>

GetStats ==
  /\ Answer("getStats", <<>>, getStats(St))
  /\ Become(getStatsLeaves(St))
  /\ UNCHANGED <<removed, facade, scan, tok>>

Export ==
  /\ Answer("export", <<>>, export(St))
  /\ Become(exportLeaves(St))
  /\ UNCHANGED <<removed, facade, scan, tok>>

NextQuery ==
  \/ \E q \in Queries, o \in QueryOptions : Search(q, o)
  \/ \E q \in Queries, o \in QueryOptions : SearchOr(q, o)
  \/ \E pre \in Prefixes, o \in QueryOptions : SearchPrefix(pre, o)
  \/ GetStats
  \/ Export

SpecQuery == InitQuery /\ [][NextQuery]_vars

\* the value the call of answer returns on the index as it is now
AnswerNow ==
  IF answer.call = "search" THEN search(St, answer.args[1], answer.args[2])
  ELSE IF answer.call = "searchOr"
  THEN searchOr(St, answer.args[1], answer.args[2])
  ELSE IF answer.call = "searchPrefix"
  THEN searchPrefix(St, answer.args[1], answer.args[2])
  ELSE IF answer.call = "getStats" THEN getStats(St)
  ELSE export(St)

Tokenless ==
  {documentTokens[j].key :
     j \in {k \in 1..Len(documentTokens) : documentTokens[k].val = <<>>}}

\* the id is a key of no map and a member of no posting set
Absent(s, id) ==
  /\ ~MapHas(s.documents, id)
  /\ ~MapHas(s.documentTokens, id)
  /\ \A i \in 1..Len(s.index) : ~SetHas(s.index[i].val, id)

\* C28: documents and documentTokens have the same keys and every id of a
\* posting set is one of them; a document without tokens is a key of both
\* maps with an empty token set, is counted in totalDocuments, is returned by
\* no search, and removeDocument removes it from both maps
C28_SameKeysAndTokenlessDocuments ==
  /\ Range(Keys(documents)) = Range(Keys(documentTokens))
  /\ \A i \in 1..Len(index) :
       Range(index[i].val) \subseteq Range(Keys(documents))
  /\ getStats(St).totalDocuments = Len(documents)
  /\ \A doc \in Docs, fields \in FieldSets :
       extractTokens(doc, fields, DefaultOptions) = <<>> =>
         LET s == addDocument(St, doc.id, doc, fields)
         IN /\ MapHas(s.documents, doc.id)
            /\ MapHas(s.documentTokens, doc.id)
            /\ MapGet(s.documentTokens, doc.id) = <<>>
            /\ Range(Keys(s.documents)) = Range(Keys(s.documentTokens))
  /\ \A id \in Tokenless :
       /\ MapHas(documents, id)
       /\ \A o \in SearchOptions :
            /\ \A q \in Queries :
                 /\ id \notin ResultIds(search(St, q, o), o.includeScore)
                 /\ id \notin ResultIds(searchOr(St, q, o), o.includeScore)
            /\ \A pre \in Prefixes :
                 id \notin ResultIds(searchPrefix(St, pre, o), FALSE)
       /\ Absent(removeDocument(St, id), id)
       /\ getStats(removeDocument(St, id)).totalDocuments
            = getStats(St).totalDocuments - 1

\* a document without tokens is indexed next to one that has tokens
C28_Witness ==
  /\ Len(documents) = 2
  /\ Cardinality(Tokenless) = 1
  /\ Len(index) >= 1

(***************************************************************************)
(* The facade's usage statistics: applyTemplate and rateTemplate           *)
(* (ROADMAP.md) with incrementTemplateUsage and updateTemplateRating       *)
(* (src/src/models/Template.js).  Both storage adapters hand out copies of *)
(* their records, so that what these calls change is the store's record    *)
(* and not the document the index holds.  The calls do not overlap here:   *)
(* each is one step, from its findById to the end of its storage.update.   *)
(***************************************************************************)
MaxUsage == 2

\* the ratings callers give
Ratings == {5}

\* template[field] || default
FieldOr(template, field, default) ==
  IF field \in DOMAIN template THEN template[field] ELSE default

\* template[field] = value
WithField(template, field, value) ==
  [f \in DOMAIN template \cup {field} |->
     IF f = field THEN value ELSE template[f]]

\* incrementTemplateUsage(template)
incrementTemplateUsage(template) ==
  WithField(template, "usageCount", FieldOr(template, "usageCount", 0) + 1)

\* updateTemplateRating(template, rating), for a rating from 1 to 5
updateTemplateRating(template, rating) ==
  LET currentRating == FieldOr(template, "rating", Zero)
      counted       == FieldOr(template, "usageCount", 0)
      usageCount    == IF counted >= 1 THEN counted ELSE 1
  IN WithField(template, "rating",
       IF usageCount = 1 THEN Frac(rating, 1)
       ELSE Frac(currentRating.num * (usageCount - 1) + rating * currentRating.den,
                 currentRating.den * usageCount))

\* storage.update(id, updatedData) with a whole record
StorageUpdate(id, updatedData) ==
  [i \in 1..Len(store) |-> IF store[i].id = id THEN updatedData ELSE store[i]]

\* applyTemplate(templateId, variableValues) of a stored template
ApplyTemplate(id) ==
  /\ isInitialized /\ AllIdle
  /\ FindById(id) # <<>>
  /\ FieldOr(FindById(id)[1], "usageCount", 0) < MaxUsage
  /\ store' = StorageUpdate(id, incrementTemplateUsage(FindById(id)[1]))
  /\ UNCHANGED <<index, documents, documentTokens, stats, removed, scan, tok,
                 indexReady, isInitialized, tasks, nextId, answer>>

\* rateTemplate(templateId, rating) of a stored template; the averages are
\* kept to denominators up to MaxUsage
RateTemplate(id, rating) ==
  /\ isInitialized /\ AllIdle
  /\ FindById(id) # <<>>
  /\ LET updatedTemplate == updateTemplateRating(FindById(id)[1], rating)
     IN /\ updatedTemplate.rating.den <= MaxUsage
        /\ store' = StorageUpdate(id, updatedTemplate)
  /\ UNCHANGED <<index, documents, documentTokens, stats, removed, scan, tok,
                 indexReady, isInitialized, tasks, nextId, answer>>

NextFacadeUsage ==
  \/ Initialize
  \/ \E t \in TaskIds, name \in TemplateNames : CreateAlone(t, name)
  \/ \E t \in TaskIds : Add(t)
  \/ \E t \in TaskIds : IndexAdd(t)
  \/ \E t \in TaskIds, id \in DocIds \cup {Id(0)}, name \in TemplateNames :
       UpdateAlone(t, id, name)
  \/ \E t \in TaskIds : Find(t)
  \/ \E t \in TaskIds : Update(t)
  \/ \E t \in TaskIds : IndexUpdate(t)
  \/ \E id \in DocIds \cup {Id(0)} : ApplyTemplate(id)
  \/ \E id \in DocIds \cup {Id(0)}, rating \in Ratings : RateTemplate(id, rating)

SpecFacadeUsage == InitFacade /\ [][NextFacadeUsage]_vars

\* C29: whenever indexReady holds and no call is in flight, every document
\* the index holds is the store's record of the same id, after calls of
\* updateTemplate, rateTemplate and applyTemplate
C29_IndexedDocumentsAreStoreRecords ==
  (indexReady /\ AllIdle) =>
    \A i \in 1..Len(documents) :
      /\ FindById(documents[i].key) # <<>>
      /\ documents[i].val = FindById(documents[i].key)[1]
====
